---------------------------- MODULE Spec2Model ----------------------------
(***************************************************************************)
(* A model of the autonote web service: the notes generator               *)
(* (utils/summarizer.py), the extractors, the cleanup sweeper             *)
(* (utils/cleanup.py), the chatbot back ends and the HTTP handlers of     *)
(* app.py.                                                                 *)
(*                                                                         *)
(* A Python string is a sequence of tokens.  A token is either a single   *)
(* character (" ", ".", a line feed written "\n") or a run of letters     *)
(* that the code never looks inside, such as "W21", a word of 21 letters; *)
(* TokLen gives the number of characters a token stands for, so len(),    *)
(* strip(), split() and re.split() are computed as Python computes them.  *)
(***************************************************************************)
EXTENDS Integers, Sequences, FiniteSets, TLC

VARIABLES
    call,       \* the last direct call of a library function and its result
    files,      \* the output directory: path -> [mtime, content, locked]
    now,        \* the wall clock, in hours
    thr,        \* the request threads of the web server
    uuids,      \* how many uuid4() values have been drawn
    chatbot,    \* utils.chatbot._document_chatbot
    summarizer, \* the globals summarizer and use_fallback of utils.summarizer
    issued,     \* the identifiers process() has generated, in this run or an earlier one
    cleaner     \* the background cleanup thread

vars == <<call, files, now, thr, uuids, chatbot, summarizer, issued, cleaner>>

(***************************************************************************)
(* Bounds of the model.                                                    *)
(***************************************************************************)
MaxTextLen == 4

MaxUuids == 2

MaxTime == 2

MaxPipelineFail == 2

(***************************************************************************)
(* Strings.                                                                *)
(***************************************************************************)
Min(S) == CHOOSE x \in S : \A y \in S : x <= y

Max(S) == CHOOSE x \in S : \A y \in S : x >= y

TokLen(t) ==
    CASE t = "W5" -> 5
      [] t = "W21" -> 21
      [] t = "W900" -> 900
      [] t = "key" -> 3
      [] t = "* " -> 2
      [] t = "--- Page 1 ---" -> 14
      [] t = "[Image 1-0]: " -> 13
      [] t = " x1000" -> 1000
      [] t = "=x50" -> 50
      [] t = "=x60" -> 60
      [] OTHER -> 1

RECURSIVE StrLen(_)
StrLen(s) == IF s = <<>> THEN 0 ELSE TokLen(Head(s)) + StrLen(Tail(s))

\* " x1000" is a run of 1000 spaces
IsSpace(t) == t \in {" ", "\n", " x1000"}

IsStop(t) == t \in {".", "!", "?"}

\* str.strip()
Strip(s) ==
    LET idx == {i \in 1..Len(s) : ~IsSpace(s[i])}
    IN  IF idx = {} THEN <<>> ELSE SubSeq(s, Min(idx), Max(idx))

\* the first index >= i of s that is not a stop character
RECURSIVE SkipStops(_, _)
SkipStops(s, i) ==
    IF i <= Len(s) /\ IsStop(s[i]) THEN SkipStops(s, i + 1) ELSE i

\* re.split(r'[.!?]+', s): a run of stop characters is one separator
RECURSIVE ReSplitFrom(_, _, _, _)
ReSplitFrom(s, i, cur, acc) ==
    IF i > Len(s) THEN Append(acc, cur)
    ELSE IF IsStop(s[i]) THEN ReSplitFrom(s, SkipStops(s, i), <<>>, Append(acc, cur))
    ELSE ReSplitFrom(s, i + 1, Append(cur, s[i]), acc)

ReSplit(s) == ReSplitFrom(s, 1, <<>>, <<>>)

\* s.split(c): every occurrence of the character c is a separator
RECURSIVE SplitOnFrom(_, _, _, _, _)
SplitOnFrom(s, c, i, cur, acc) ==
    IF i > Len(s) THEN Append(acc, cur)
    ELSE IF s[i] = c THEN SplitOnFrom(s, c, i + 1, <<>>, Append(acc, cur))
    ELSE SplitOnFrom(s, c, i + 1, Append(cur, s[i]), acc)

SplitOn(s, c) == SplitOnFrom(s, c, 1, <<>>, <<>>)

DotSplit(s) == SplitOn(s, ".")

\* s.split(): the words between runs of whitespace, none of them empty
RECURSIVE WordsFrom(_, _, _, _)
WordsFrom(s, i, cur, acc) ==
    IF i > Len(s) THEN (IF cur = <<>> THEN acc ELSE Append(acc, cur))
    ELSE IF IsSpace(s[i])
         THEN WordsFrom(s, i + 1, <<>>, IF cur = <<>> THEN acc ELSE Append(acc, cur))
    ELSE WordsFrom(s, i + 1, Append(cur, s[i]), acc)

Words(s) == WordsFrom(s, 1, <<>>, <<>>)

\* sep.join(parts)
RECURSIVE Join(_, _)
Join(sep, parts) ==
    IF parts = <<>> THEN <<>>
    ELSE IF Len(parts) = 1 THEN parts[1]
    ELSE parts[1] \o sep \o Join(sep, Tail(parts))

\* [x.strip() for x in parts]
MapStrip(parts) == [i \in 1..Len(parts) |-> Strip(parts[i])]

(***************************************************************************)
(* utils/summarizer.py                                                     *)
(***************************************************************************)
\* The module-level load of the summarization pipeline.  primary and second
\* tell whether pipeline(...) succeeds for MODEL and for the smaller model.
LoadSummarizer(primary, second) ==
    IF primary THEN [summarizer |-> "pipeline", use_fallback |-> FALSE]
    ELSE IF second THEN [summarizer |-> "pipeline", use_fallback |-> FALSE]
    ELSE [summarizer |-> "None", use_fallback |-> TRUE]

BackendStates ==
    {LoadSummarizer(p, q) : p \in BOOLEAN, q \in BOOLEAN}

Keywords == {"important", "key", "main", "significant", "crucial", "essential", "primary"}

\* any(keyword in sentence.lower() for keyword in keywords)
HasKeyword(sentence) == \E i \in 1..Len(sentence) : sentence[i] \in Keywords

MeaningfulLen == 20

IsMeaningful(s) == StrLen(s) > MeaningfulLen

MaxSummary == 5

MinSummary == 3

\* the loop over meaningful_sentences[1:], with its break
RECURSIVE KeywordLoop(_, _)
KeywordLoop(rest, summary) ==
    IF rest = <<>> THEN summary
    ELSE LET s1 == IF HasKeyword(Head(rest)) THEN Append(summary, Head(rest)) ELSE summary
         IN  IF Len(s1) >= MaxSummary THEN s1 ELSE KeywordLoop(Tail(rest), s1)

\* "If still short, add more sentences"
TopUp(meaningful, summary) ==
    IF Len(summary) < MinSummary /\ Len(meaningful) > Len(summary)
    THEN summary \o SubSeq(meaningful, Len(summary) + 1,
                           Min({Len(summary) + 3, Len(meaningful)}))
    ELSE summary

SummarySentences(text) ==
    LET meaningful == SelectSeq(MapStrip(ReSplit(text)), IsMeaningful)
        first == IF meaningful = <<>> THEN <<>> ELSE <<meaningful[1]>>
        keyed == IF meaningful = <<>> THEN <<>> ELSE KeywordLoop(Tail(meaningful), first)
    IN  TopUp(meaningful, keyed)

\* f"* {sentence.strip()}." (the bullet is U+2022 in the source)
BulletLine(sentence) == <<"* ">> \o Strip(sentence) \o <<".">>

simple_text_summarizer(text) ==
    LET chosen == SummarySentences(text)
    IN  Join(<<"\n">>, [i \in 1..Len(chosen) |-> BulletLine(chosen[i])])

\* ' '.join(current_chunk)
JoinWords(ws) == Join(<<" ">>, ws)

RECURSIVE ChunkLoop(_, _, _, _, _)
ChunkLoop(words, max_chunk_size, current_chunk, current_size, chunks) ==
    IF words = <<>>
    THEN (IF current_chunk = <<>> THEN chunks ELSE Append(chunks, JoinWords(current_chunk)))
    ELSE LET chunk1 == Append(current_chunk, Head(words))
             size1 == current_size + StrLen(Head(words)) + 1
         IN  IF size1 >= max_chunk_size
             THEN ChunkLoop(Tail(words), max_chunk_size, <<>>, 0,
                            Append(chunks, JoinWords(chunk1)))
             ELSE ChunkLoop(Tail(words), max_chunk_size, chunk1, size1, chunks)

\* chunk_text with text.split(' ') in the place of text.split()
chunk_text_split_space(text, max_chunk_size) ==
    ChunkLoop(SplitOn(text, " "), max_chunk_size, <<>>, 0, <<>>)

chunk_text(text, max_chunk_size) == ChunkLoop(Words(text), max_chunk_size, <<>>, 0, <<>>)

LongTextLen == 1000

ChunkSize == 900

ShortChunkLen == 50

NoContent == <<"No content provided for summarization.">>

\* The summarization pipeline as generate_notes sees it: its failAt-th call
\* raises (0: none does), every other call returns [{"summary_text": text}].
PipelineCall(be, k) ==
    IF be.failAt = k THEN [raises |-> TRUE, text |-> <<>>]
    ELSE [raises |-> FALSE, text |-> be.text]

\* the loop over the chunks: k pipeline calls were made so far
RECURSIVE ChunkSummaries(_, _, _, _)
ChunkSummaries(chunks, be, k, summaries) ==
    IF chunks = <<>> THEN [raises |-> FALSE, summaries |-> summaries, calls |-> k]
    ELSE IF StrLen(Strip(Head(chunks))) < ShortChunkLen
         THEN ChunkSummaries(Tail(chunks), be, k, summaries)
    ELSE LET r == PipelineCall(be, k + 1)
         IN  IF r.raises THEN [raises |-> TRUE, summaries |-> summaries, calls |-> k + 1]
             ELSE ChunkSummaries(Tail(chunks), be, k + 1, Append(summaries, r.text))

IsNonBlank(s) == Strip(s) # <<>>

\* the try block of generate_notes
ModelNotes(text, be) ==
    IF StrLen(text) > LongTextLen
    THEN LET r == ChunkSummaries(chunk_text(text, ChunkSize), be, 0, <<>>)
         IN  IF r.raises
             THEN [value |-> simple_text_summarizer(text), calls |-> r.calls, fellBack |-> TRUE]
             ELSE [value |-> Join(<<"\n">>, [i \in 1..Len(r.summaries) |->
                                                 <<"* ">> \o r.summaries[i]]),
                   calls |-> r.calls, fellBack |-> FALSE]
    ELSE LET r == PipelineCall(be, 1)
             sentences == SelectSeq(MapStrip(DotSplit(r.text)), LAMBDA x : x # <<>>)
         IN  IF r.raises
             THEN [value |-> simple_text_summarizer(text), calls |-> 1, fellBack |-> TRUE]
             ELSE [value |-> Join(<<"\n">>, [i \in 1..Len(sentences) |->
                                                 <<"* ">> \o sentences[i] \o <<".">>]),
                   calls |-> 1, fellBack |-> FALSE]

\* the guard without strip(): it lets a whitespace-only text through
NoContentGuardNoStrip(text) == text = <<>>

\* if not text.strip()
NoContentGuard(text) == ~IsNonBlank(text)

UseFallback(st) == st.use_fallback \/ st.summarizer = "None"

generate_notes(text, st, be) ==
    IF NoContentGuard(text)
    THEN [value |-> NoContent, calls |-> 0, fellBack |-> FALSE]
    ELSE IF UseFallback(st)
    THEN [value |-> simple_text_summarizer(text), calls |-> 0, fellBack |-> TRUE]
    ELSE ModelNotes(text, be)

\* def generate_notes(text, max_length=200, min_length=50)
GenerateNotesParams == {"text", "max_length", "min_length"}

\* A Python call generate_notes(text, **kwargs): a keyword the signature does
\* not have raises TypeError before the body runs.
CallGenerateNotes(text, kwargs, st, be) ==
    IF kwargs \subseteq GenerateNotesParams
    THEN [raised |-> "", ret |-> generate_notes(text, st, be)]
    ELSE [raised |-> "TypeError",
          ret |-> [value |-> <<>>, calls |-> 0, fellBack |-> FALSE]]

(***************************************************************************)
(* The extractors.  The bytes of a file are a record: type is the format   *)
(* the bytes are in, ok tells whether they are well formed in that format, *)
(* text is the text they hold (the decoded characters of a text file, the  *)
(* text layer of a PDF page, the paragraphs of a DOCX document separated   *)
(* by line feeds, what tesseract reads off the unprocessed image) and ocr  *)
(* is what OCR reads off the images of a PDF page, or off the preprocessed *)
(* image.  An extractor returns [raised, exc, value].                      *)
(***************************************************************************)
Returns(v) == [raised |-> FALSE, exc |-> "", value |-> v]

Raises(e) == [raised |-> TRUE, exc |-> e, value |-> <<>>]

Readable(exists, body, type) == exists /\ body.type = type /\ body.ok

\* utils/ocr.py
image_to_text(exists, body) ==
    IF ~Readable(exists, body, "png")
    THEN Raises("Error extracting text from image")
    ELSE IF Strip(body.ocr) # <<>> THEN Returns(Strip(body.ocr))
    ELSE Returns(Strip(body.text))

\* utils/pdf_reader.py, extract_images_from_pdf_page: an OCR failure is
\* printed and the image is skipped
extract_images_from_pdf_page(body) ==
    IF Strip(body.ocr) # <<>>
    THEN <<"\n", "[Image 1-0]: ">> \o Strip(body.ocr) \o <<"\n">>
    ELSE <<>>

\* the text PyMuPDF collects from a document of one page
PyMuPdfText(body) ==
    (IF Strip(body.text) # <<>>
     THEN <<"\n", "--- Page 1 ---", "\n">> \o body.text \o <<"\n">>
     ELSE <<>>) \o extract_images_from_pdf_page(body)

\* the try block of pdf_to_text
PyMuPdfPass(exists, body) ==
    IF ~Readable(exists, body, "pdf") THEN Raises("fitz.open failed")
    ELSE IF Strip(PyMuPdfText(body)) # <<>> THEN Returns(Strip(PyMuPdfText(body)))
    ELSE Raises("No text extracted with PyMuPDF")

\* the pdfminer pass, which reads the text layer only
PdfMinerPass(exists, body) ==
    IF ~Readable(exists, body, "pdf") THEN Raises("pdfminer failed")
    ELSE IF Strip(body.text) # <<>> THEN Returns(Strip(body.text))
    ELSE Raises("No text found in PDF")

pdf_to_text(exists, body) ==
    IF ~PyMuPdfPass(exists, body).raised THEN PyMuPdfPass(exists, body)
    ELSE IF ~PdfMinerPass(exists, body).raised THEN PdfMinerPass(exists, body)
    ELSE Raises("Error reading PDF with both libraries")

\* utils/docx_reader.py
docx_to_text(exists, body) ==
    IF ~Readable(exists, body, "docx")
    THEN Raises("Error reading DOCX file")
    ELSE Returns(Join(<<"\n">>,
                      SelectSeq(MapStrip(SplitOn(body.text, "\n")), LAMBDA x : x # <<>>)))

\* open(file_path, 'r', encoding='utf-8').read()
read_text(exists, body) ==
    IF ~exists THEN Raises("FileNotFoundError")
    ELSE IF ~(body.type = "txt" /\ body.ok) THEN Raises("UnicodeDecodeError")
    ELSE Returns(body.text)

\* the extractor of a format, by the extension it is registered under
Extractor(ext, exists, body) ==
    CASE ext = <<".", "pdf">> -> pdf_to_text(exists, body)
      [] ext = <<".", "docx">> -> docx_to_text(exists, body)
      [] ext = <<".", "txt">> -> read_text(exists, body)
      [] OTHER -> image_to_text(exists, body)

\* an except clause that returns "" without flashing
extract_text_from_file_quietly(exists, body, ext) ==
    LET r == CASE ext = <<".", "pdf">> -> pdf_to_text(exists, body)
               [] ext = <<".", "docx">> -> docx_to_text(exists, body)
               [] ext = <<".", "txt">> -> read_text(exists, body)
               [] OTHER -> Returns(<<>>)
    IN  [value |-> r.value, flashed |-> <<>>, caught |-> r.raised]

\* app.py, extract_text_from_file: the value it returns, the messages it
\* flashes, and whether its except clause caught an exception
extract_text_from_file(exists, body, ext) ==
    LET r == CASE ext = <<".", "pdf">> -> pdf_to_text(exists, body)
               [] ext = <<".", "docx">> -> docx_to_text(exists, body)
               [] ext = <<".", "txt">> -> read_text(exists, body)
               [] OTHER -> Returns(<<>>)
    IN  IF r.raised
        THEN [value |-> <<>>, flashed |-> <<<<"Error extracting text from file: ", r.exc>>>>,
              caught |-> TRUE]
        ELSE [value |-> r.value, flashed |-> <<>>, caught |-> FALSE]

(***************************************************************************)
(* app.py: names, paths and the upload of a request.                       *)
(***************************************************************************)
Lower(t) ==
    CASE t = "PDF" -> "pdf"
      [] t = "TXT" -> "txt"
      [] t = "What" -> "what"
      [] t = "TABLE" -> "table"
      [] t = "Summary" -> "summary"
      [] t = "Main" -> "main"
      [] OTHER -> t

LowerSeq(s) == [i \in 1..Len(s) |-> Lower(s[i])]

HasDot(fn) == \E i \in 1..Len(fn) : fn[i] = "."

LastDot(fn) == Max({i \in 1..Len(fn) : fn[i] = "."})

\* filename.rsplit('.', 1)[1], for a name that holds a dot
AfterLastDot(fn) == SubSeq(fn, LastDot(fn) + 1, Len(fn))

\* Config.UPLOAD_EXTENSIONS
UPLOAD_EXTENSIONS == {<<".", "txt">>, <<".", "pdf">>, <<".", "docx">>}

\* ext.lstrip('.')
LStripDot(ext) == IF ext # <<>> /\ Head(ext) = "." THEN Tail(ext) ELSE ext

\* a test of the extension that lets every upload through
allowed_file_any(filename) == TRUE

allowed_file(filename) ==
    /\ HasDot(filename)
    /\ LowerSeq(AfterLastDot(filename)) \in {LStripDot(e) : e \in UPLOAD_EXTENSIONS}

\* werkzeug's secure_filename: separators become blanks, blanks become "_",
\* and leading and trailing dots and underscores are stripped
StripDots(fn) ==
    LET idx == {i \in 1..Len(fn) : fn[i] \notin {".", "_"}}
    IN  IF idx = {} THEN <<>> ELSE SubSeq(fn, Min(idx), Max(idx))

secure_filename(fn) ==
    StripDots(Join(<<"_">>, Words([i \in 1..Len(fn) |-> IF fn[i] = "/" THEN " " ELSE fn[i]])))

UuidNames == <<"u1", "u2", "u3", "u4", "u5", "u6">>

\* an identifier source that repeats itself: every draw gives the same value
Uuid4Repeating(n) == UuidNames[1]

\* str(uuid.uuid4()): the n-th value drawn, different from all before it
Uuid4(n) == UuidNames[n]

\* f"temp_{uuid.uuid4()}_{filename}"
TempPath(u, filename) == <<"temp_", u, "_">> \o filename

\* f"{file_id}.{format_type}"
ExportPath(file_id, format_type) == file_id \o <<".">> \o format_type

ExportFormats == <<<<"txt">>, <<"md">>, <<"pdf">>, <<"docx">>>>

Body(type, ok, text, ocr) == [type |-> type, ok |-> ok, text |-> text, ocr |-> ocr]

NoBody == Body("none", FALSE, <<>>, <<>>)

\* request.files['file']: present is "'file' in request.files"
Upload(filename, body) == [present |-> TRUE, filename |-> filename, body |-> body]

NoUpload == [present |-> FALSE, filename |-> <<>>, body |-> NoBody]

FileText == <<"W5", ".">>

Uploads ==
    { NoUpload,
      Upload(<<>>, NoBody),
      Upload(<<"a", ".", "txt">>, Body("txt", TRUE, FileText, <<>>)),
      Upload(<<"a", ".", "PDF">>, Body("pdf", TRUE, <<>>, <<>>)),
      Upload(<<"a", ".", "PDF">>, Body("pdf", FALSE, <<>>, <<>>)),
      Upload(<<"a", ".", "png">>, Body("png", TRUE, FileText, <<>>)),
      Upload(<<".", "txt">>, Body("txt", TRUE, FileText, <<>>)) }

\* request.form.get('text', '')
FormTexts == {<<" ">>, <<" ", "W21", ".">>}

NoteStyles == {"structured", "bullet", "detailed"}

(***************************************************************************)
(* utils/chatbot.py                                                        *)
(***************************************************************************)
\* The keywords a longer word holds inside it ("in" is substring containment).
Infixes(t) ==
    CASE t = "checklist" -> {"list"}
      [] t = "this" -> {"is"}
      [] OTHER -> {}

\* any(word in s.lower() for word in ws), for words ws of one token each
HasAnyWord(s, ws) ==
    \E i \in 1..Len(s) : Lower(s[i]) \in ws \/ Infixes(Lower(s[i])) \cap ws # {}

\* kw in s.lower(), for a keyword kw of several tokens
HasPhrase(s, kw) ==
    \E i \in 1..(Len(s) - Len(kw) + 1) : LowerSeq(SubSeq(s, i, i + Len(kw) - 1)) = kw

\* s[:n]; a run of letters cut in two is left as the token "~"
RECURSIVE Prefix(_, _)
Prefix(s, n) ==
    IF s = <<>> \/ n <= 0 THEN <<>>
    ELSE IF TokLen(Head(s)) <= n THEN <<Head(s)>> \o Prefix(Tail(s), n - TokLen(Head(s)))
    ELSE <<"~">>

table_keywords == {"table", "chart", "organize", "tabulate", "columns", "rows"}

summary_keywords == {"summarize", "summary", "brief", "overview"}

list_keywords == {"list", "enumerate", "items", "steps"}

_is_table_request(question) == HasAnyWord(question, table_keywords)

_is_summary_request(question) ==
    HasAnyWord(question, summary_keywords) \/ HasPhrase(question, <<"main", " ", "points">>)

_is_list_request(question) ==
    HasAnyWord(question, list_keywords) \/ HasPhrase(question, <<"bullet", " ", "points">>)

NoTableMsg == <<"I couldn't find enough structured data to create a meaningful table from the source document.">>

TableRow(i, point) ==
    <<"| ", "Point ", ToString(i), " | ">>
        \o (IF StrLen(point) > 100 THEN Prefix(point, 100) \o <<"...">> ELSE point)
        \o <<" |", "\n">>

RECURSIVE Concat(_)
Concat(parts) == IF parts = <<>> THEN <<>> ELSE Head(parts) \o Concat(Tail(parts))

_create_table_from_text(doc) ==
    LET data_points == SelectSeq(MapStrip(DotSplit(doc)),
                           LAMBDA x : StrLen(x) > 20
                                      /\ HasAnyWord(x, {"is", "are", "has", "have", "contains"}))
        rows == SubSeq(data_points, 1, Min({10, Len(data_points)}))
    IN  IF data_points = <<>> THEN NoTableMsg
        ELSE <<"**Generated Table:**", "\n", "\n", "| **Topic** | **Information** |", "\n",
               "|-----------|----------------|", "\n">>
             \o Concat([i \in 1..Len(rows) |-> TableRow(i, rows[i])])
             \o <<"\n", "\n", "*Table created from available information in the source document.*">>

TooShortMsg == <<"The document is too short for a meaningful summary.">>

_create_custom_summary(doc) ==
    LET key_sentences == SelectSeq(MapStrip(DotSplit(doc)),
                             LAMBDA x : 30 <= StrLen(x) /\ StrLen(x) <= 200)
        n == Len(key_sentences)
    IN  IF n < 3 THEN TooShortMsg
        ELSE <<"**Custom Summary:**", "\n", "\n">>
             \o <<"* ">> \o key_sentences[1] \o <<"\n">>
             \o <<"* ">> \o key_sentences[(n \div 2) + 1] \o <<"\n">>
             \o <<"* ">> \o key_sentences[n] \o <<"\n", "\n">>
             \o <<"*Summary generated based on your request.*">>

NoListMsg == <<"I couldn't extract meaningful list items from the source document.">>

_create_list_from_text(doc) ==
    LET items == SelectSeq(MapStrip(DotSplit(doc)),
                     LAMBDA x : 20 <= StrLen(x) /\ StrLen(x) <= 150)
        shown == SubSeq(items, 1, Min({8, Len(items)}))
    IN  IF items = <<>> THEN NoListMsg
        ELSE <<"**Generated List:**", "\n", "\n">>
             \o Concat([i \in 1..Len(shown) |-> <<ToString(i), ". ">> \o shown[i] \o <<"\n">>])
             \o <<"\n", "*List created from source document content.*">>

NotFoundMsg == <<"I couldn't find specific information about that in the source document.">>

HelpMsg == <<"I'm here to help you with questions about the source document. Try asking about specific topics mentioned in the text.">>

\* the words of the question that the keyword search looks for
SearchWords(question) ==
    {w \in {Words(LowerSeq(question))[i] : i \in 1..Len(Words(LowerSeq(question)))} :
        StrLen(w) > 3}

\* word in sentence.lower(), for a word of the question
HasWord(sentence, w) ==
    IF Len(w) = 1 THEN HasAnyWord(sentence, {w[1]}) ELSE HasPhrase(sentence, w)

_fallback_answer(doc, question) ==
    IF HasAnyWord(question, {"what", "explain", "describe"})
    THEN LET relevant == SelectSeq(DotSplit(doc),
                             LAMBDA x : \E w \in SearchWords(question) : HasWord(x, w))
         IN  IF relevant # <<>>
             THEN <<"**Based on the document:** ">> \o Prefix(Strip(relevant[1]), 200) \o <<"...">>
             ELSE NotFoundMsg
    ELSE IF HasPhrase(question, <<"how", " ", "many">>) \/ HasAnyWord(question, {"count"})
    THEN <<"**Document Statistics:**", "\n", "* Sentences: ", ToString(Len(DotSplit(doc))),
           "\n", "* Words: ", ToString(Len(Words(doc))),
           "\n", "* Characters: ", ToString(StrLen(doc))>>
    ELSE HelpMsg

ConfidencePct == 30

\* What the question-answering pipeline does when called: it raises, returns
\* something that is no {score, answer} dictionary, or returns an answer
\* with a score (in percent).
QaReply(kind, score, answer) == [kind |-> kind, score |-> score, answer |-> answer]

\* _answer_direct_question with the confidence test confidence >= 0.3
_answer_direct_question_inclusive(doc, qa_pipeline, question, reply) ==
    IF ~qa_pipeline THEN _fallback_answer(doc, question)
    ELSE IF reply.kind = "raise" THEN _fallback_answer(doc, question)
    ELSE IF reply.kind = "dict"
         THEN (IF reply.score >= ConfidencePct
               THEN <<"**Answer:** ">> \o reply.answer
                    \o <<"\n", "\n", "*Confidence: ", ToString(reply.score), "%*">>
               ELSE _fallback_answer(doc, question))
    ELSE _fallback_answer(doc, question)

_answer_direct_question(doc, qa_pipeline, question, reply) ==
    IF ~qa_pipeline THEN _fallback_answer(doc, question)
    ELSE IF reply.kind = "raise" THEN _fallback_answer(doc, question)
    ELSE IF reply.kind = "dict"
         THEN (IF reply.score > ConfidencePct
               THEN <<"**Answer:** ">> \o reply.answer
                    \o <<"\n", "\n", "*Confidence: ", ToString(reply.score), "%*">>
               ELSE _fallback_answer(doc, question))
    ELSE _fallback_answer(doc, question)

NoDocumentMsg == <<"No source document available. Please provide a document first.">>

\* answer_question with the summary test made before the table test
answer_question_summary_first(doc, qa_pipeline, question, reply) ==
    IF doc = <<>> THEN NoDocumentMsg
    ELSE IF _is_summary_request(question) THEN _create_custom_summary(doc)
    ELSE IF _is_table_request(question) THEN _create_table_from_text(doc)
    ELSE IF _is_list_request(question) THEN _create_list_from_text(doc)
    ELSE _answer_direct_question(doc, qa_pipeline, question, reply)

answer_question(doc, qa_pipeline, question, reply) ==
    IF doc = <<>> THEN NoDocumentMsg
    ELSE IF _is_table_request(question) THEN _create_table_from_text(doc)
    ELSE IF _is_summary_request(question) THEN _create_custom_summary(doc)
    ELSE IF _is_list_request(question) THEN _create_list_from_text(doc)
    ELSE _answer_direct_question(doc, qa_pipeline, question, reply)

UploadFirst == <<<<"Upload a document first to start chatting!">>>>

DefaultSuggestions ==
    << <<"What are the main topics in this document?">>,
       <<"Can you create a table from this information?">>,
       <<"Summarize the key points for me">>,
       <<"What are the most important facts?">>,
       <<"Create a numbered list of main ideas">> >>

get_suggestions(doc) == IF doc = <<>> THEN UploadFirst ELSE DefaultSuggestions

\* DocumentChatbot(): loaded tells whether _initialize_models got its models
\* id tells the instances apart (0: the one get_chatbot makes in one step)
NewChatbot(loaded) ==
    [exists |-> TRUE, id |-> 0, qa_pipeline |-> loaded, source_document |-> <<>>,
     conversation_history |-> <<>>]

NoChatbot ==
    [exists |-> FALSE, id |-> 0, qa_pipeline |-> FALSE, source_document |-> <<>>,
     conversation_history |-> <<>>]

\* get_chatbot(): the global instance, created on first use
get_chatbot(bot, loaded) == IF bot.exists THEN bot ELSE NewChatbot(loaded)

set_source_document(bot, document_text) ==
    [bot EXCEPT !.source_document = document_text, !.conversation_history = <<>>]

(***************************************************************************)
(* utils/online_ai.py                                                      *)
(***************************************************************************)
\* What model.generate_content does when called: it raises exc, or returns
\* a response whose text is empty, or one with a text.
ApiReply(kind, exc, text) == [kind |-> kind, exc |-> exc, text |-> text]

ServiceUnavailableMsg == <<"I'm sorry, but the AI service is currently unavailable. Please check your API configuration and try again.">>

NoResponseMsg == <<"I couldn't generate a response. Please try rephrasing your question.">>

\* OnlineAI.chat_response(question, context)
chat_response(is_initialized, api, question, context) ==
    IF ~is_initialized THEN ServiceUnavailableMsg
    ELSE IF api.kind = "raise"
    THEN <<"I encountered an error: ", api.exc, ". Please try again in a moment.">>
    ELSE IF api.text # <<>> THEN api.text
    ELSE NoResponseMsg

(***************************************************************************)
(* The web server: one thread per request.  A thread record holds the     *)
(* locals of the handler it runs, the messages it flashed and, once the   *)
(* handler has returned, its response.                                     *)
(***************************************************************************)
\* the server handles requests on two threads
Threads == {1, 2}

NoResp == [kind |-> "none", status |-> 0, body |-> [none |-> <<>>]]

\* redirect(url_for('index'))
RedirectIndex == [kind |-> "redirect", status |-> 302, body |-> [location |-> <<"/">>]]

Idle ==
    [pc |-> "idle", route |-> "none",
     file_id |-> <<>>, format_type |-> <<>>,    \* download: the URL's id and format
     filename |-> <<>>,                         \* process: file.filename of the upload
     bot |-> NoChatbot,                         \* chat_with_document: the local chatbot
     user_text |-> <<>>,                        \* process: the pasted text, stripped
     extracted_text |-> <<>>, file_extension |-> <<>>, temp_path |-> <<>>,
     extractRaised |-> FALSE,                   \* the extractor raised
     notesFrom |-> <<>>, generated |-> FALSE,   \* generate_notes was called on notesFrom
     exportFailed |-> FALSE,                    \* an exporter raised
     warned |-> FALSE,                          \* "Warning: Could not remove temp file"
     flashes |-> <<>>, resp |-> NoResp]

Free(t) == thr[t].pc \in {"idle", "done"}

Flash(th, msg) == [th EXCEPT !.flashes = Append(@, msg)]

Done(th, resp) == [th EXCEPT !.pc = "done", !.resp = resp]

UnsupportedMsg == <<"File type not supported. Please upload TXT, PDF, or DOCX files.">>

EmptyInputMsg == <<"Please provide text or upload a file.">>

FileNotFoundMsg == <<"File not found.">>

\* "if not extracted_text.strip()": the empty-input redirect, or on to the notes
AfterGather(th) ==
    IF ~IsNonBlank(th.extracted_text)
    THEN Done(Flash(th, EmptyInputMsg), RedirectIndex)
    ELSE [th EXCEPT !.pc = "generate"]

File(mtime, content, locked) == [mtime |-> mtime, content |-> content, locked |-> locked]

\* the directory with path p written (created or overwritten)
WriteFile(dir, p, f) == [q \in DOMAIN dir \cup {p} |-> IF q = p THEN f ELSE dir[q]]

\* the directory with path p removed
RemoveFile(dir, p) == [q \in DOMAIN dir \ {p} |-> dir[q]]

\* os.remove(p) succeeds
Removable(dir, p) == p \in DOMAIN dir /\ ~dir[p].locked

\* process(), from its start to file.save(temp_path)
ProcessBegin(t) ==
    /\ Free(t)
    /\ \E form_text \in FormTexts, file \in Uploads :
         LET user_text == Strip(form_text)
             th0 == [Idle EXCEPT !.pc = "begin", !.route = "process",
                                 !.filename = IF file.present THEN file.filename ELSE <<>>,
                                 !.user_text = user_text,
                                 !.extracted_text =
                                     IF user_text # <<>> THEN user_text \o <<"\n", "\n">>
                                     ELSE <<>>]
             filename == secure_filename(file.filename)
         IN  IF ~(file.present /\ file.filename # <<>>)
             THEN /\ thr' = [thr EXCEPT ![t] = AfterGather(th0)]
                  /\ UNCHANGED <<files, uuids>>
             ELSE IF ~allowed_file(file.filename)
             THEN /\ thr' = [thr EXCEPT ![t] = Done(Flash(th0, UnsupportedMsg), RedirectIndex)]
                  /\ UNCHANGED <<files, uuids>>
             ELSE IF ~HasDot(filename)
             THEN \* filename.rsplit('.', 1)[1] raises IndexError
                  /\ thr' = [thr EXCEPT ![t] =
                         Done(Flash(th0, <<"Error processing uploaded file: ", "IndexError">>),
                              RedirectIndex)]
                  /\ UNCHANGED <<files, uuids>>
             ELSE /\ uuids < MaxUuids
                  /\ uuids' = uuids + 1
                  /\ \/ /\ files' = WriteFile(files, TempPath(Uuid4(uuids'), filename),
                                                File(now, file.body, FALSE))
                        /\ thr' = [thr EXCEPT ![t] =
                               [th0 EXCEPT !.pc = "extract",
                                           !.file_extension =
                                               <<".">> \o LowerSeq(AfterLastDot(filename)),
                                           !.temp_path = TempPath(Uuid4(uuids'), filename)]]
                     \/ \* file.save raises OSError
                        /\ files' = files
                        /\ thr' = [thr EXCEPT ![t] =
                               Done(Flash(th0, <<"Error processing uploaded file: ", "OSError">>),
                                    RedirectIndex)]
    /\ UNCHANGED <<call, now, chatbot, summarizer, issued, cleaner>>

\* file_text = extract_text_from_file(temp_path, file_extension)
ProcessExtract(t) ==
    /\ thr[t].pc = "extract"
    /\ LET th == thr[t]
           exists == th.temp_path \in DOMAIN files
           body == IF exists THEN files[th.temp_path].content ELSE NoBody
           r == extract_text_from_file(exists, body, th.file_extension)
       IN  thr' = [thr EXCEPT ![t] =
                      [th EXCEPT !.pc = "remove",
                                 !.extracted_text = @ \o r.value,
                                 !.extractRaised = r.caught,
                                 !.flashes = @ \o r.flashed]]
    /\ UNCHANGED <<call, files, now, uuids, chatbot, summarizer, issued, cleaner>>

\* os.remove(temp_path) with its failure left to the outer except clause,
\* which flashes it and redirects
ProcessRemoveTempRaising(t) ==
    /\ thr[t].pc = "remove"
    /\ IF Removable(files, thr[t].temp_path)
       THEN /\ files' = RemoveFile(files, thr[t].temp_path)
            /\ thr' = [thr EXCEPT ![t] = AfterGather(thr[t])]
       ELSE /\ files' = files
            /\ thr' = [thr EXCEPT ![t] =
                   Done(Flash([thr[t] EXCEPT !.warned = TRUE],
                              <<"Error processing uploaded file: ", "OSError">>),
                        RedirectIndex)]
    /\ UNCHANGED <<call, now, uuids, chatbot, summarizer, issued, cleaner>>

\* os.remove(temp_path), a failure printed; then the check for empty input
ProcessRemoveTemp(t) ==
    /\ thr[t].pc = "remove"
    /\ IF Removable(files, thr[t].temp_path)
       THEN /\ files' = RemoveFile(files, thr[t].temp_path)
            /\ thr' = [thr EXCEPT ![t] = AfterGather(thr[t])]
       ELSE /\ files' = files
            /\ thr' = [thr EXCEPT ![t] = AfterGather([thr[t] EXCEPT !.warned = TRUE])]
    /\ UNCHANGED <<call, now, uuids, chatbot, summarizer, issued, cleaner>>

SummaryTexts == {<<>>, <<"W5", ".", " ", "W5", ".">>, <<"W21">>}

\* the ways the summarization pipeline may behave during one call of generate_notes
Backends == [failAt : 0..MaxPipelineFail, text : SummaryTexts]

\* a pipeline that is never reached
NoBackend == [failAt |-> 0, text |-> <<>>]

\* an exporter that opens its file for appending: what an earlier export
\* under the same identifier wrote stays in front of the notes
save_as_appending(dir, notes, file_id, format_type, time) ==
    LET p == ExportPath(file_id, format_type)
        old == IF p \in DOMAIN dir THEN dir[p].content.text ELSE <<>>
    IN  WriteFile(dir, p, File(time, Body(format_type[1], TRUE, old \o notes, <<>>), FALSE))

\* utils/file_exports.py: save_as_txt, save_as_md, save_as_pdf and save_as_docx
\* each write <file_id>.<format> into the output directory
save_as(dir, notes, file_id, format_type, time) ==
    WriteFile(dir, ExportPath(file_id, format_type),
              File(time, Body(format_type[1], TRUE, notes, <<>>), FALSE))

\* the first k of the four exporters, run in the order of process()
RECURSIVE SaveFirst(_, _, _, _, _)
SaveFirst(dir, notes, file_id, k, time) ==
    IF k = 0 THEN dir
    ELSE save_as(SaveFirst(dir, notes, file_id, k - 1, time), notes, file_id,
                 ExportFormats[k], time)

\* process(), the try block that generates, exports and renders the notes.
\* failAt is the exporter that raises (0: none).
ProcessGenerate(t) ==
    /\ thr[t].pc = "generate"
    /\ LET th == [thr[t] EXCEPT !.notesFrom = thr[t].extracted_text, !.generated = TRUE]
           kwargs == {"note_style"}
       IN  IF CallGenerateNotes(th.extracted_text, kwargs, summarizer, NoBackend).raised # ""
           THEN /\ thr' = [thr EXCEPT ![t] =
                       Done(Flash(th, <<"Error generating notes: ",
                                        CallGenerateNotes(th.extracted_text, kwargs, summarizer,
                                                          NoBackend).raised>>),
                            RedirectIndex)]
                /\ UNCHANGED <<files, uuids, chatbot, issued>>
           ELSE \E note_style \in NoteStyles, be \in Backends,
                   failAt \in 0..Len(ExportFormats), loaded \in BOOLEAN :
                  LET notes == CallGenerateNotes(th.extracted_text, kwargs, summarizer,
                                                 be).ret.value
                      file_id == <<Uuid4(uuids + 1)>>
                      bot == set_source_document(get_chatbot(chatbot, loaded),
                                                 th.extracted_text)
                  IN  /\ uuids < MaxUuids
                      /\ uuids' = uuids + 1
                      /\ issued' = issued \cup {file_id}
                      /\ IF failAt # 0
                         THEN /\ files' = SaveFirst(files, notes, file_id, failAt - 1, now)
                              /\ thr' = [thr EXCEPT ![t] =
                                     Done(Flash([th EXCEPT !.exportFailed = TRUE],
                                                <<"Error generating notes: ", "exporter failed">>),
                                          RedirectIndex)]
                              /\ UNCHANGED chatbot
                         ELSE /\ files' = SaveFirst(files, notes, file_id,
                                                    Len(ExportFormats), now)
                              /\ chatbot' = bot
                              /\ thr' = [thr EXCEPT ![t] =
                                     Done(th, [kind |-> "render", status |-> 200,
                                               body |-> [notes |-> notes,
                                                         original_text |-> th.extracted_text,
                                                         chat_suggestions |->
                                                             Concat(get_suggestions(bot.source_document)),
                                                         file_id |-> file_id]])]
    /\ UNCHANGED <<call, now, summarizer, cleaner>>

(***************************************************************************)
(* GET /download/<file_id>?format=...                                      *)
(***************************************************************************)
DownloadIds == {<<Uuid4(1)>>, <<"temp_", Uuid4(1), "_", "a">>, <<"r0">>}

\* request.args.get('format', 'txt')
FormatArgs == {<<"txt">>, <<"pdf">>}

\* download(), up to os.path.exists(filepath)
DownloadBegin(t) ==
    /\ Free(t)
    /\ \E file_id \in DownloadIds, format_type \in FormatArgs :
         LET th == [Idle EXCEPT !.route = "download", !.file_id = file_id,
                                !.format_type = format_type]
         IN  IF ExportPath(file_id, format_type) \in DOMAIN files
             THEN thr' = [thr EXCEPT ![t] = [th EXCEPT !.pc = "send"]]
             ELSE thr' = [thr EXCEPT ![t] = Done(Flash(th, FileNotFoundMsg), RedirectIndex)]
    /\ UNCHANGED <<call, files, now, uuids, chatbot, summarizer, issued, cleaner>>

\* send_from_directory(...): the file, or 404 if it is gone by now
DownloadSend(t) ==
    /\ thr[t].pc = "send"
    /\ LET filename == ExportPath(thr[t].file_id, thr[t].format_type)
       IN  thr' = [thr EXCEPT ![t] =
                      IF filename \in DOMAIN files
                      THEN Done(thr[t], [kind |-> "file", status |-> 200,
                                         body |-> [filename |-> filename,
                                                   content |-> files[filename].content.text]])
                      ELSE Done(thr[t], [kind |-> "abort", status |-> 404,
                                         body |-> [filename |-> filename]])]
    /\ UNCHANGED <<call, files, now, uuids, chatbot, summarizer, issued, cleaner>>

(***************************************************************************)
(* POST /api/chat                                                          *)
(***************************************************************************)
\* The request body: kind is "nonjson" (no JSON: request.get_json raises),
\* "null" (the JSON value null), "object" (a JSON object; hasQuestion tells
\* whether it has the key "question") or "number" (an object whose question
\* is a number, which has no strip()).
ChatBody(kind, hasQuestion, question) ==
    [kind |-> kind, hasQuestion |-> hasQuestion, question |-> question]

Questions == {<<>>, <<" ">>, <<"What", " ", "W5">>, <<" ", "table">>}

ChatBodies ==
    {ChatBody("nonjson", FALSE, <<>>), ChatBody("null", FALSE, <<>>),
     ChatBody("object", FALSE, <<>>), ChatBody("number", TRUE, <<>>)}
        \cup {ChatBody("object", TRUE, q) : q \in Questions}

QaReplies ==
    {QaReply("raise", 0, <<>>), QaReply("list", 0, <<>>),
     QaReply("dict", 30, <<"W5">>), QaReply("dict", 31, <<"W5">>)}

Json(status, body) == [kind |-> "json", status |-> status, body |-> body]

\* the reply of the except clause of chat_api
ChatError(exc) ==
    Json(500, [error |-> <<"Chat error: ", exc>>, success |-> <<"false">>])

\* the reply of chat_api to a question that is empty after strip()
ChatNoQuestion == Json(400, [error |-> <<"Question is required">>])

\* chat_api(), which creates the chatbot on first use
chat_api(body, bot, reply) ==
    IF body.kind = "nonjson" THEN ChatError("BadRequest")
    ELSE IF body.kind \in {"null", "number"} THEN ChatError("AttributeError")
    ELSE IF Strip(IF body.hasQuestion THEN body.question ELSE <<>>) = <<>>
    THEN ChatNoQuestion
    ELSE Json(200, [response |-> answer_question(bot.source_document, bot.qa_pipeline,
                                                 Strip(body.question), reply),
                    success |-> <<"true">>])

\* whether chat_api gets as far as chat_with_document, and so get_chatbot
ChatReachesBot(body) ==
    body.kind = "object" /\ body.hasQuestion /\ Strip(body.question) # <<>>

ChatApi(t) ==
    /\ Free(t)
    /\ \E body \in ChatBodies, loaded \in BOOLEAN, reply \in QaReplies :
         LET bot == IF ChatReachesBot(body) THEN get_chatbot(chatbot, loaded) ELSE chatbot
         IN  /\ chatbot' = bot
             /\ thr' = [thr EXCEPT ![t] =
                    Done([Idle EXCEPT !.route = "chat",
                                      !.user_text = IF body.hasQuestion THEN body.question
                                                    ELSE <<>>],
                         chat_api(body, bot, reply))]
    /\ UNCHANGED <<call, files, now, uuids, summarizer, issued, cleaner>>

(***************************************************************************)
(* utils/cleanup.py.  Time is counted in hours.                            *)
(***************************************************************************)
MaxAgeHours == 1

IntervalHours == 1

\* The thread between two passes.  printed is the last line the pass printed,
\* skipped the entries it listed and never came to; listed (the directory as
\* the pass found it) and removed (what it removed) are kept during a pass.
Asleep(wake, printed, skipped) ==
    [pc |-> "sleep", current_time |-> 0, todo |-> {}, cur |-> <<>>, wake |-> wake,
     printed |-> printed, listed |-> <<>>, removed |-> {}, skipped |-> skipped]

\* cleanup_worker wakes up: cleanup_old_files reads the clock and lists the directory
CleanupBegin ==
    /\ cleaner.pc = "sleep"
    /\ now >= cleaner.wake
    /\ cleaner' = [cleaner EXCEPT !.pc = "loop", !.current_time = now, !.wake = 0,
                                  !.todo = DOMAIN files, !.printed = "",
                                  !.listed = files, !.skipped = {}]
    /\ UNCHANGED <<call, files, now, thr, uuids, chatbot, summarizer, issued>>

\* the next entry of the listing (os.listdir gives them in any order) and
\* os.path.isfile on it, which is False for an entry that is gone
CleanupIsFile ==
    /\ cleaner.pc = "loop"
    /\ \E p \in cleaner.todo :
         cleaner' = [cleaner EXCEPT !.todo = @ \ {p},
                                    !.cur = IF p \in DOMAIN files THEN p ELSE <<>>,
                                    !.pc = IF p \in DOMAIN files THEN "getmtime" ELSE "loop"]
    /\ UNCHANGED <<call, files, now, thr, uuids, chatbot, summarizer, issued>>

\* a test that takes a file of exactly the maximum age for an old one
TooOldInclusive(current_time, mtime) == current_time - mtime >= MaxAgeHours

\* file_age > max_age_seconds
TooOld(current_time, mtime) == current_time - mtime > MaxAgeHours

\* what os.path.getmtime raising does to the pass: the except clause around
\* the loop prints the error and cleanup_old_files returns
GetMtimeRaised(c) == Asleep(now + IntervalHours, "Error during cleanup", c.todo)

\* os.path.getmtime(filepath) and the age test
CleanupGetMtime ==
    /\ cleaner.pc = "getmtime"
    /\ IF cleaner.cur \notin DOMAIN files
       THEN cleaner' = GetMtimeRaised(cleaner)
       ELSE cleaner' = IF TooOld(cleaner.current_time, files[cleaner.cur].mtime)
                       THEN [cleaner EXCEPT !.pc = "remove"]
                       ELSE [cleaner EXCEPT !.pc = "loop", !.cur = <<>>]
    /\ UNCHANGED <<call, files, now, thr, uuids, chatbot, summarizer, issued>>

\* os.remove(filepath), a failure printed
CleanupRemove ==
    /\ cleaner.pc = "remove"
    /\ IF Removable(files, cleaner.cur)
       THEN /\ files' = RemoveFile(files, cleaner.cur)
            /\ cleaner' = [cleaner EXCEPT !.pc = "loop", !.cur = <<>>,
                                          !.removed = @ \cup {cleaner.cur},
                                          !.printed = "Cleaned up old file"]
       ELSE /\ files' = files
            /\ cleaner' = [cleaner EXCEPT !.pc = "loop", !.cur = <<>>,
                                          !.printed = "Error removing file"]
    /\ UNCHANGED <<call, now, thr, uuids, chatbot, summarizer, issued>>

\* the listing is exhausted: time.sleep(interval_hours * 3600)
CleanupEnd ==
    /\ cleaner.pc = "loop"
    /\ cleaner.todo = {}
    /\ cleaner' = Asleep(now + IntervalHours, cleaner.printed, {})
    /\ UNCHANGED <<call, files, now, thr, uuids, chatbot, summarizer, issued>>

\* an hour passes
Tick ==
    /\ now < MaxTime
    /\ now' = now + 1
    /\ UNCHANGED <<call, files, thr, uuids, chatbot, summarizer, issued, cleaner>>

(***************************************************************************)
(* The service after start-up.  The output directory is created if it is  *)
(* missing and kept if it exists, so it may hold what an earlier run left. *)
(***************************************************************************)
NoCall == [op |-> "none"]

\* an export of an earlier run of the service
LeftOverId == <<"r0">>

LeftOver == ExportPath(LeftOverId, <<"txt">>)

InitDirs ==
    {<<>>} \cup {WriteFile(<<>>, LeftOver, File(0, Body("txt", TRUE, FileText, <<>>), l)) :
                    l \in BOOLEAN}

Init ==
    /\ call = NoCall
    /\ files \in InitDirs
    /\ now = 0
    /\ thr = [t \in Threads |-> Idle]
    /\ uuids = 0
    /\ chatbot = NoChatbot
    /\ summarizer \in BackendStates
    /\ issued = IF LeftOver \in DOMAIN files THEN {LeftOverId} ELSE {}
    /\ cleaner = Asleep(0, "", {})

Request(t) ==
    \/ ProcessBegin(t)
    \/ ProcessExtract(t)
    \/ ProcessRemoveTemp(t)
    \/ ProcessGenerate(t)
    \/ DownloadBegin(t)
    \/ DownloadSend(t)
    \/ ChatApi(t)

Cleanup ==
    \/ CleanupBegin
    \/ CleanupIsFile
    \/ CleanupGetMtime
    \/ CleanupRemove
    \/ CleanupEnd

Next ==
    \/ \E t \in Threads : Request(t)
    \/ Cleanup
    \/ Tick

Spec == Init /\ [][Next]_vars

Process(t) ==
    \/ ProcessBegin(t)
    \/ ProcessExtract(t)
    \/ ProcessRemoveTemp(t)
    \/ ProcessGenerate(t)

\* one client's uploads being processed while the sweeper runs
NextFiles ==
    \/ Process(1)
    \/ Cleanup
    \/ Tick

SpecFiles == Init /\ [][NextFiles]_vars

\* two clients upload at once
NextProcess == \E t \in Threads : Process(t)

SpecProcess == Init /\ [][NextProcess]_vars

Download(t) ==
    \/ DownloadBegin(t)
    \/ DownloadSend(t)

\* one client uploads while another asks for downloads
NextDownload ==
    \/ Process(1)
    \/ Download(2)

SpecDownload == Init /\ [][NextDownload]_vars

\* one client uploads while another chats
NextChat ==
    \/ Process(1)
    \/ ChatApi(2)

SpecChat == Init /\ [][NextChat]_vars

(***************************************************************************)
(* The library called directly, as test_app.py calls it: one call, whose   *)
(* arguments the initial state draws, and its result.                      *)
(***************************************************************************)
\* the strings of at most n tokens over the alphabet A
Strings(A, n) == UNION {[1..k -> A] : k \in 0..n}

NoteAlphabet == {"W21", "W900", "key", " ", "."}

\* with them a text that is long by its whitespace only
NoteTexts == Strings(NoteAlphabet, MaxTextLen) \cup {<<"key", " x1000", "key">>}

Pending(op, args) == [op |-> op, args |-> args, done |-> FALSE, ret |-> <<>>]

NotesCalls ==
    {Pending("generate_notes", [text |-> x, be |-> b]) : x \in NoteTexts, b \in Backends}

ExtractExts == {<<".", "pdf">>, <<".", "docx">>, <<".", "txt">>, <<".", "png">>}

BodyTexts == {<<>>, <<" ">>, <<"W5", ".">>, <<" ", "W5", "\n", "\n", "W5">>}

OcrTexts == {<<>>, <<"W5">>}

Bodies ==
    {Body(t, ok, x, o) : t \in {"txt", "pdf", "docx", "png"}, ok \in BOOLEAN,
                         x \in BodyTexts, o \in OcrTexts}

ExtractCalls ==
    {Pending("extract", [ext |-> e, exists |-> TRUE, body |-> b]) :
        e \in ExtractExts, b \in Bodies}
    \cup {Pending("extract", [ext |-> e, exists |-> FALSE, body |-> NoBody]) :
              e \in ExtractExts}

ApiReplies ==
    {ApiReply("raise", "DeadlineExceeded", <<>>), ApiReply("text", "", <<>>),
     ApiReply("text", "", <<"W5", ".">>)}

Docs == {<<>>, <<"W5", ".">>, <<"W21", " ", "is", " ", "W5", ".", "W5">>}

DirectQuestions == {<<"What", " ", "W21">>, <<"how", " ", "many">>, <<"W5">>}

ChatCalls ==
    {Pending("chat_response", [is_initialized |-> i, api |-> a, question |-> q, context |-> d]) :
        i \in BOOLEAN, a \in ApiReplies, q \in DirectQuestions, d \in Docs}

QaCalls ==
    {Pending("_answer_direct_question",
             [doc |-> d, qa_pipeline |-> l, question |-> q, reply |-> r]) :
        d \in Docs \ {<<>>}, l \in BOOLEAN, q \in DirectQuestions, r \in QaReplies}

\* the service is not running: no request, no sweeper, an empty directory
Library ==
    /\ files = <<>>
    /\ now = 0
    /\ thr = [t \in Threads |-> Idle]
    /\ uuids = 0
    /\ chatbot = NoChatbot
    /\ summarizer \in BackendStates
    /\ issued = {}
    /\ cleaner = Asleep(0, "", {})

Return(v) ==
    /\ ~call.done
    /\ call' = [call EXCEPT !.done = TRUE, !.ret = v]
    /\ UNCHANGED <<files, now, thr, uuids, chatbot, summarizer, issued, cleaner>>

\* generate_notes(text)
GenerateNotesCall ==
    /\ call.op = "generate_notes"
    /\ Return(CallGenerateNotes(call.args.text, {}, summarizer, call.args.be))

\* pdf_to_text(path), docx_to_text(path), image_to_text(path) or open(path).read()
ExtractCall ==
    /\ call.op = "extract"
    /\ Return(Extractor(call.args.ext, call.args.exists, call.args.body))

\* OnlineAI().chat_response(question, context)
ChatResponseCall ==
    /\ call.op = "chat_response"
    /\ Return(chat_response(call.args.is_initialized, call.args.api, call.args.question,
                            call.args.context))

\* DocumentChatbot()._answer_direct_question(question)
AnswerDirectCall ==
    /\ call.op = "_answer_direct_question"
    /\ Return(_answer_direct_question(call.args.doc, call.args.qa_pipeline,
                                      call.args.question, call.args.reply))

InitNotes == call \in NotesCalls /\ Library

SpecNotes == InitNotes /\ [][GenerateNotesCall]_vars

InitExtract == call \in ExtractCalls /\ Library

SpecExtract == InitExtract /\ [][ExtractCall]_vars

InitBackends == call \in (NotesCalls \cup QaCalls \cup ChatCalls) /\ Library

NextBackends ==
    \/ GenerateNotesCall
    \/ AnswerDirectCall
    \/ ChatResponseCall

SpecBackends == InitBackends /\ [][NextBackends]_vars

(***************************************************************************)
(* Properties of the library calls.                                        *)
(***************************************************************************)
Finished(op) == call.op = op /\ call.done

\* whether text is made of bullet lines: every line is a bullet followed by
\* something
IsBulleted(text) ==
    LET ls == SplitOn(text, "\n")
    IN  \A i \in 1..Len(ls) : Len(ls[i]) >= 2 /\ ls[i][1] = "* "

\* C5: generate_notes called with the empty string or a whitespace-only
\* string returns the fixed "no content" indicator in every backend state,
\* without raising and without calling the pipeline.
C5_NoContentIndicator ==
    (Finished("generate_notes") /\ Strip(call.args.text) = <<>>) =>
        /\ call.ret.raised = ""
        /\ call.ret.ret.value = NoContent
        /\ call.ret.ret.calls = 0

\* a whitespace-only text given to a loaded model whose first call would raise
C5_Witness ==
    /\ Finished("generate_notes")
    /\ call.args.text = <<" ", " ">>
    /\ summarizer.summarizer = "pipeline"
    /\ call.args.be.failAt = 1
    /\ call.ret.ret.value = NoContent

\* generate_notes found the model not loaded, or a call of the pipeline raised
BackendFailedNotes == call.ret.ret.fellBack

\* C6: when the backend fails (the model is not loaded or the model call
\* raises), generate_notes returns, for every non-empty input text, a
\* non-empty output made of bullet lines.
C6_FallbackNonEmpty ==
    (Finished("generate_notes") /\ IsNonBlank(call.args.text) /\ BackendFailedNotes) =>
        /\ call.ret.ret.value # <<>>
        /\ IsBulleted(call.ret.ret.value)

\* the format an extension stands for
FormatOf(ext) == ext[2]

WellFormed(args) ==
    args.exists /\ args.body.ok /\ args.body.type = FormatOf(args.ext)

\* C7: for every supported extension, the extractor applied to a well-formed
\* file of that type returns a string, possibly empty, and does not raise.
C7_ExtractorReturns ==
    (Finished("extract") /\ WellFormed(call.args)) => ~call.ret.raised

\* the texts by which a reply tells the user that the backend failed
FailureReports ==
    {ServiceUnavailableMsg[1], "I encountered an error: ", "DeadlineExceeded"}

ReportsFailure(text) == \E i \in 1..Len(text) : text[i] \in FailureReports

\* the backend of the finished call failed
BackendFailed ==
    CASE call.op = "generate_notes" -> BackendFailedNotes
      [] call.op = "_answer_direct_question" ->
             ~call.args.qa_pipeline \/ call.args.reply.kind = "raise"
      [] call.op = "chat_response" ->
             \/ ~call.args.is_initialized
             \/ call.args.api.kind = "raise"
             \/ call.args.api.text = <<>>
      [] OTHER -> FALSE

\* the text the finished call returned
Returned ==
    IF call.op = "generate_notes" THEN call.ret.ret.value ELSE call.ret

\* C9: a backend failure during note generation or during a chat answer is
\* replaced by a heuristic fallback result; the text returned never reports
\* the failure or the exception message.
C9_FailureDowngraded ==
    (call.done /\ BackendFailed) =>
        /\ ~ReportsFailure(Returned)
        /\ call.op = "generate_notes" =>
               Returned = simple_text_summarizer(call.args.text)
        /\ call.op = "_answer_direct_question" =>
               Returned = _fallback_answer(call.args.doc, call.args.question)

(***************************************************************************)
(* Properties of the web service.                                          *)
(***************************************************************************)
Answered(t, route) == thr[t].route = route /\ thr[t].pc = "done"

Flashed(t, msg) == \E i \in 1..Len(thr[t].flashes) : thr[t].flashes[i] = msg

\* C1: a POST /process whose gathered text is non-blank answers with the
\* rendered notes and a newly generated identifier whenever the summarizer
\* and the four exporters succeed on that text.
C1_NotesRendered ==
    \A t \in Threads :
        (Answered(t, "process") /\ thr[t].generated /\ ~thr[t].exportFailed) =>
            /\ thr[t].resp.kind = "render"
            /\ thr[t].resp.body.file_id \in issued

\* C2: a download whose identifier no /process request generated is never
\* streamed a file and ends in the "File not found" flash and the redirect
\* to the index page.
C2_UnknownIdNotFound ==
    \A t \in Threads :
        (thr[t].route = "download" /\ thr[t].file_id \notin issued) =>
            /\ thr[t].pc # "send"
            /\ thr[t].pc = "done" =>
                   thr[t].resp = RedirectIndex /\ thr[t].flashes = <<FileNotFoundMsg>>

\* a cleanup pass is under way
InPass == cleaner.pc \in {"loop", "getmtime", "remove"}

\* the pass has read the last entry of its listing
PassOver == cleaner.pc = "loop" /\ cleaner.todo = {}

\* p was older than the threshold when the pass began
Old(p) == cleaner.current_time - cleaner.listed[p].mtime > MaxAgeHours

\* the listed entries the pass is through with
Reached == DOMAIN cleaner.listed \ (cleaner.todo \cup {cleaner.cur})

Unchanged(p) == p \in DOMAIN files /\ files[p] = cleaner.listed[p]

\* C3 as stated: when a pass is over, every file that was older than the
\* threshold is removed, and the pass has removed or changed no newer file.
C3_OldRemovedNewKept ==
    PassOver =>
        \A p \in DOMAIN cleaner.listed :
            IF Old(p) THEN p \notin DOMAIN files
            ELSE p \notin cleaner.removed /\ (p \in DOMAIN files => Unchanged(p))

\* C3: at every point of a pass, each old file the pass is through with is
\* removed unless os.remove fails on it, and the pass has removed or changed
\* no file newer than the threshold.
C3_OldRemovedUnlessFailed ==
    InPass =>
        \A p \in DOMAIN cleaner.listed :
            IF Old(p)
            THEN p \in Reached => (p \notin DOMAIN files \/ files[p].locked)
            ELSE p \notin cleaner.removed /\ (p \in DOMAIN files => Unchanged(p))

\* a pass that is over removed an old file and left a newer one in place
C3_Witness ==
    /\ PassOver
    /\ \E p \in cleaner.removed : Old(p)
    /\ \E q \in DOMAIN cleaner.listed : ~Old(q) /\ Unchanged(q)

\* C4: a failure on one file is printed and not propagated, and the pass
\* still examines every remaining directory entry.
C4_PassExaminesAll ==
    cleaner.pc = "sleep" => cleaner.skipped = {}

\* C8: every reply of POST /api/chat carries a success field, which is
\* false exactly when the reply carries an error field.
C8_SuccessField ==
    \A t \in Threads :
        Answered(t, "chat") =>
            /\ "success" \in DOMAIN thr[t].resp.body
            /\ (thr[t].resp.body.success = <<"false">>) <=> ("error" \in DOMAIN thr[t].resp.body)

\* the text gathered before the upload is read: the pasted text
Pasted(t) ==
    IF thr[t].user_text # <<>> THEN thr[t].user_text \o <<"\n", "\n">> ELSE <<>>

\* C10: when extraction from the upload raises, the failure is flashed and
\* the request keeps the text gathered so far: with pasted text it goes on to
\* generate notes from it, without it ends in the empty-input redirect.
C10_ExtractionFailureContinues ==
    \A t \in Threads :
        (thr[t].route = "process" /\ thr[t].extractRaised) =>
            /\ \E i \in 1..Len(thr[t].flashes) :
                   thr[t].flashes[i][1] = "Error extracting text from file: "
            /\ thr[t].extracted_text = Pasted(t)
            /\ thr[t].pc = "done" =>
                   IF thr[t].user_text # <<>>
                   THEN thr[t].generated /\ thr[t].notesFrom = Pasted(t)
                   ELSE /\ ~thr[t].generated
                        /\ thr[t].resp = RedirectIndex
                        /\ Flashed(t, EmptyInputMsg)

\* extraction raised on a request with pasted text, which went on to generate_notes
C10_Witness ==
    \E t \in Threads :
        /\ Answered(t, "process")
        /\ thr[t].extractRaised
        /\ thr[t].user_text # <<>>
        /\ thr[t].generated

\* the extensions the service is specified to accept
SpecifiedExtensions ==
    {<<"txt">>, <<"pdf">>, <<"docx">>, <<"png">>, <<"jpg">>, <<"jpeg">>}

\* the upload's name ends in one of the specified extensions, in any case
Specified(filename) ==
    HasDot(filename) /\ LowerSeq(AfterLastDot(filename)) \in SpecifiedExtensions

\* the request saved its upload and handed it to extract_text_from_file
ReachedExtraction(t) == thr[t].temp_path # <<>> /\ thr[t].pc # "extract"

\* C11: an upload whose extension is one of .txt, .pdf, .docx, .png, .jpg,
\* .jpeg (in any case) is accepted and its text extracted with the extractor
\* of that format (unless saving it failed); an upload with any other
\* extension ends in the unsupported-type flash and the redirect.
C11_SupportedAccepted ==
    \A t \in Threads :
        (Answered(t, "process") /\ thr[t].filename # <<>>) =>
            IF Specified(thr[t].filename)
            THEN /\ ~Flashed(t, UnsupportedMsg)
                 /\ \/ /\ ReachedExtraction(t)
                       /\ thr[t].file_extension =
                              <<".">> \o LowerSeq(AfterLastDot(thr[t].filename))
                    \/ Flashed(t, <<"Error processing uploaded file: ", "OSError">>)
            ELSE /\ thr[t].resp = RedirectIndex
                 /\ thr[t].flashes = <<UnsupportedMsg>>


\* the last POST /process that thread t handled got as far as generating
\* notes from its gathered text, and no exporter raised
Processed(t) == Answered(t, "process") /\ thr[t].generated /\ ~thr[t].exportFailed

\* C12: with the POST /process requests handled one after another (here on
\* thread 1, while thread 2 chats), the document /api/chat answers from is
\* the text gathered by the most recent processing request; it is the empty
\* "no document" state only before the first such request.
C12_DocumentIsLatest ==
    Processed(1) =>
        /\ chatbot.exists
        /\ chatbot.source_document = thr[1].extracted_text


\* user A on thread 1 and user B on thread 2 post to /process while A also chats
NextRace ==
    \/ Process(1)
    \/ Process(2)
    \/ ChatApi(1)

SpecRace == Init /\ [][NextRace]_vars

\* what answer_question may return for question q over one of the documents docs
AnswersFrom(docs, q) ==
    {answer_question(d, qa, q, r) : d \in docs, qa \in BOOLEAN, r \in QaReplies}

\* C13: the chatbot document is shared between users and not locked.  A
\* question user A sends after A's own /process and user B's /process have
\* completed is answered from a document one of them submitted: from B's
\* whenever B's request stored its text last.
C13_AnsweredFromSharedDocument ==
    [][(/\ Processed(1)
        /\ Processed(2)
        /\ thr'[1].route = "chat"
        /\ thr'[1].resp.status = 200)
       => thr'[1].resp.body.response \in
              AnswersFrom({thr[1].extracted_text, thr[2].extracted_text},
                          Strip(thr'[1].user_text))]_vars

\* user A's question was answered from the document user B submitted
AnsweredFromOther ==
    /\ Answered(1, "chat")
    /\ Processed(2)
    /\ thr[1].resp.status = 200
    /\ chatbot.source_document = thr[2].extracted_text
    /\ thr[1].resp.body.response \in AnswersFrom({thr[2].extracted_text}, Strip(thr[1].user_text))


\* thread t has its upload in the output directory
HoldsTemp(t) == thr[t].temp_path # <<>> /\ thr[t].temp_path \in DOMAIN files

\* C14: under any interleaving of concurrent POST /process requests no two
\* requests write the same path of the output directory: the temp paths of
\* two requests differ, and no step of a request overwrites or alters a file
\* that is already there, be it another request's upload or an export.
C14_NoSharedPath ==
    /\ [](\A t1, t2 \in Threads :
              (t1 # t2 /\ thr[t1].temp_path # <<>> /\ thr[t2].temp_path # <<>>) =>
                  thr[t1].temp_path # thr[t2].temp_path)
    /\ [][\A p \in DOMAIN files : p \in DOMAIN files' => files'[p] = files[p]]_vars

\* two requests have their uploads on disk at once, next to an earlier export
C14_Witness ==
    /\ thr[1].pc = "extract" /\ HoldsTemp(1)
    /\ thr[2].pc = "extract" /\ HoldsTemp(2)
    /\ thr[1].filename = thr[2].filename
    /\ LeftOver \in DOMAIN files


\* the request of thread t saved its upload to a temp path
SavedUpload(t) == thr[t].route = "process" /\ thr[t].temp_path # <<>>

\* os.remove(temp_path) has run: the file is gone, or the failure was printed
RemovalAttempted(t) == thr[t].warned \/ thr[t].temp_path \notin DOMAIN files

\* C15: a POST /process that saved its upload attempts to remove the temp
\* file after extraction and before notes generation, whether or not
\* extraction raised; a failed removal is printed only: nothing is flashed
\* for it and the request goes on as after a removal that succeeded, to the
\* notes if it gathered text and to the empty-input redirect otherwise.
C15_TempRemovalAttempted ==
    \A t \in Threads :
        SavedUpload(t) =>
            /\ thr[t].pc \in {"generate", "done"} => RemovalAttempted(t)
            /\ thr[t].generated => RemovalAttempted(t)
            /\ thr[t].pc = "extract" => ~thr[t].warned
            /\ thr[t].warned =>
                   /\ \A i \in 1..Len(thr[t].flashes) :
                          thr[t].flashes[i][1] # "Error processing uploaded file: "
                   /\ thr[t].pc = "done" =>
                          IF IsNonBlank(thr[t].extracted_text)
                          THEN thr[t].generated
                          ELSE thr[t].resp = RedirectIndex /\ Flashed(t, EmptyInputMsg)

\* the temp file could not be removed after an extraction that raised, and
\* the request went on to generate notes from the pasted text
C15_Witness ==
    \E t \in Threads :
        /\ SavedUpload(t)
        /\ Answered(t, "process")
        /\ thr[t].warned
        /\ thr[t].extractRaised
        /\ thr[t].generated


\* the exports of identifier id that are in the output directory
ExportsOf(id) ==
    {k \in 1..Len(ExportFormats) : ExportPath(id, ExportFormats[k]) \in DOMAIN files}

\* C16: the four exporters of POST /process run in sequence with no
\* rollback.  A request that generated its notes either wrote all four
\* exports and rendered them under its identifier, or one exporter raised:
\* then the exports written before it stay on disk, the later ones are not
\* written, the request ends in the error redirect without an identifier,
\* and the step leaves the chatbot document as it was.
C16_ExportersNoRollback ==
    /\ [](\A t \in Threads :
              (Answered(t, "process") /\ thr[t].generated) =>
                  \/ /\ thr[t].resp.kind = "render"
                     /\ ExportsOf(thr[t].resp.body.file_id) = 1..Len(ExportFormats)
                  \/ /\ thr[t].exportFailed
                     /\ thr[t].resp = RedirectIndex
                     /\ \E id \in issued, k \in 1..Len(ExportFormats) :
                            ExportsOf(id) = 1..(k - 1))
    /\ [][\A t \in Threads :
              (thr'[t].exportFailed /\ ~thr[t].exportFailed) =>
                  /\ chatbot' = chatbot
                  /\ \A p \in DOMAIN files : p \in DOMAIN files' /\ files'[p] = files[p]]_vars


(***************************************************************************)
(* The sweeper in the long run.  The clock of the model stops at MaxTime   *)
(* and uuid4 is drawn at most MaxUuids times; two steps let a behaviour go *)
(* on past both.                                                           *)
(***************************************************************************)
\* time passes beyond the last hour the clock counts: the reading stays at
\* MaxTime and a time.sleep that would end later ends
Later ==
    /\ now = MaxTime
    /\ cleaner.pc = "sleep"
    /\ cleaner.wake > now
    /\ cleaner' = [cleaner EXCEPT !.wake = now]
    /\ UNCHANGED <<call, files, now, thr, uuids, chatbot, summarizer, issued>>

\* the paths that carry a uuid4 value
DrawnPaths == DOMAIN files \ {LeftOver}

\* No file, running request or listing holds a uuid4 value drawn so far, so
\* the next draws cannot meet them again: the names stand for fresh values.
FreshUuids ==
    /\ uuids > 0
    /\ \A t \in Threads : Free(t)
    /\ DrawnPaths = {}
    /\ cleaner.pc = "sleep"
    /\ uuids' = 0
    /\ thr' = [t \in Threads |-> [thr[t] EXCEPT !.temp_path = <<>>]]
    /\ cleaner' = [cleaner EXCEPT !.skipped = @ \cap {LeftOver}, !.listed = <<>>,
                                  !.removed = {}]
    /\ UNCHANGED <<call, files, now, chatbot, summarizer, issued>>

NextSweep ==
    \/ Process(1)
    \/ Cleanup
    \/ Tick
    \/ Later
    \/ FreshUuids

\* cleanup_worker is a thread of its own and the clock runs: both are
\* scheduled fairly, the clients are not
SpecSweep ==
    /\ Init
    /\ [][NextSweep]_vars
    /\ WF_vars(Cleanup)
    /\ WF_vars(Tick)
    /\ WF_vars(Later)

\* p is in the directory, can be removed and is older than the threshold
OldRemovable(p) ==
    /\ Removable(files, p)
    /\ TooOld(now, files[p].mtime)

\* the loop of cleanup_worker never ends: pass follows sleep follows pass
WorkerRunsForever ==
    /\ []<>(cleaner.pc = "sleep")
    /\ []<>InPass

\* C17: the cleanup worker runs forever, and every file of the output
\* directory that stays removable and older than the threshold is
\* eventually deleted, the worker thread being scheduled fairly.
C17_OldEventuallyDeleted ==
    /\ WorkerRunsForever
    /\ (OldRemovable(LeftOver) ~> ~OldRemovable(LeftOver))


(***************************************************************************)
(* The rate limiter of app.py (flask_limiter, fixed windows, counted in    *)
(* memory).  Time is counted in minutes.  A limit is an amount per window; *)
(* a counter belongs to one caller address, one route and one limit.       *)
(***************************************************************************)
MaxMinutes == 11

Limit(amount, window) == [amount |-> amount, window |-> window]

\* default_limits=["100 per day"]
DefaultLimits == {Limit(100, 24 * 60)}

Routes == {"/", "/health", "/process", "/download", "/api/chat", "/api/chat/suggestions"}

\* the @limiter.limit decorators
RouteLimits(route) ==
    CASE route = "/process" -> {Limit(10, 1)}
      [] route = "/api/chat" -> {Limit(30, 1)}
      [] route = "/api/chat/suggestions" -> {Limit(10, 1)}
      [] OTHER -> {}

\* The limits a route is held to.  A route decorated with limiter.limit(...)
\* is held to the decorated limits only (override_defaults is left at its
\* default, True); the default limits apply to the routes without a decorator.
ActiveLimits(route) ==
    IF RouteLimits(route) # {} THEN RouteLimits(route) ELSE DefaultLimits

\* the window of limit l that minute m falls in, the first hit being in minute 1
WindowOf(l, m) == (m - 1) \div l.window

\* The requests admitted when one address sends rate requests to one route in
\* each of the minutes m..last; used[l] counts the hits of limit l in the
\* window of minute m.  A request is admitted when every limit has room.
RECURSIVE Serve(_, _, _, _, _, _)
Serve(limits, rate, m, last, used, admitted) ==
    IF m > last THEN admitted
    ELSE LET room == Min({rate} \cup {Max({0, l.amount - used[l]}) : l \in limits})
             used1 == [l \in limits |->
                          IF m < last /\ WindowOf(l, m + 1) # WindowOf(l, m) THEN 0
                          ELSE used[l] + rate]
         IN  Serve(limits, rate, m + 1, last, used1, admitted + room)

Addresses == {"a", "b"}

\* key_func=get_remote_address: the counters of an address are its own, so
\* the requests of each address are served from its own counters
Limiter(route, rates, minutes) ==
    [addr \in Addresses |->
        Serve(ActiveLimits(route), rates[addr], 1, minutes,
              [l \in ActiveLimits(route) |-> 0], 0)]

\* how many requests an address sends to the route in each minute
RequestRates == {0, 1, 10, 11, 31}

LimiterCalls ==
    {Pending("limiter", [route |-> r, rates |-> rs, minutes |-> n]) :
        r \in Routes, rs \in [Addresses -> RequestRates], n \in 1..MaxMinutes}

\* the limiter serving the requests of the addresses, minute after minute
LimiterCall ==
    /\ call.op = "limiter"
    /\ Return(Limiter(call.args.route, call.args.rates, call.args.minutes))

InitLimiter == call \in LimiterCalls /\ Library

SpecLimiter == InitLimiter /\ [][LimiterCall]_vars

\* the most requests the default quota admits from one address within a day
DefaultQuota == Max({l.amount : l \in DefaultLimits})

\* C18: quotas are counted per caller address, each address on its own;
\* every route is under the default quota, and the quotas of /process,
\* /api/chat and /api/chat/suggestions are tighter, so within a day no
\* address is admitted to a route more often than the default quota allows.
C18_WithinDefaultQuota ==
    Finished("limiter") =>
        \A addr \in Addresses :
            /\ call.ret[addr] <= DefaultQuota
            /\ call.ret[addr] <= call.args.rates[addr] * call.args.minutes
            /\ call.ret[addr] =
                   Limiter(call.args.route, [x \in Addresses |-> call.args.rates[addr]],
                           call.args.minutes)[addr]


(***************************************************************************)
(* The TXT exporter called directly, and the file read back.               *)
(***************************************************************************)
\* what an earlier export under the same identifier may have written
EarlierNotes == {<<>>, <<"W5", ".">>}

\* save_as_txt(notes, file_id, path), times times in a row, after an earlier
\* export (earlier says whether there was one) of the notes before
ExportCalls ==
    {Pending("save_as_txt",
             [notes |-> x, file_id |-> <<Uuid4(1)>>, earlier |-> e, before |-> b, times |-> n]) :
        x \in NoteTexts, e \in BOOLEAN, b \in EarlierNotes, n \in 1..2}

\* the directory after n exports of notes under file_id
RECURSIVE ExportTimes(_, _, _, _, _)
ExportTimes(dir, notes, file_id, n, time) ==
    IF n = 0 THEN dir
    ELSE save_as(ExportTimes(dir, notes, file_id, n - 1, time), notes, file_id, <<"txt">>, time)

\* the exports, and open(<file_id>.txt).read() after them
SaveAsTxtCall ==
    /\ call.op = "save_as_txt"
    /\ ~call.done
    /\ LET a == call.args
           dir0 == IF a.earlier THEN save_as(files, a.before, a.file_id, <<"txt">>, now)
                   ELSE files
           dir1 == ExportTimes(dir0, a.notes, a.file_id, a.times, now)
           p == ExportPath(a.file_id, <<"txt">>)
       IN  /\ files' = dir1
           /\ call' = [call EXCEPT !.done = TRUE,
                                   !.ret = read_text(p \in DOMAIN dir1, dir1[p].content)]
    /\ UNCHANGED <<now, thr, uuids, chatbot, summarizer, issued, cleaner>>

InitExport == call \in ExportCalls /\ Library

SpecExport == InitExport /\ [][SaveAsTxtCall]_vars

CallerQuestions == {<<"how", " ", "many">>}

CallerDocs == {<<>>, <<"W5", ".">>, <<"W21">>}

\* chat_with_document(question, document_text), up to the test
\* "if _document_chatbot is None" of get_chatbot
GetChatbotTest(t) ==
    /\ Free(t)
    /\ \E question \in CallerQuestions, document_text \in CallerDocs :
         thr' = [thr EXCEPT ![t] =
                    [Idle EXCEPT !.route = "chat_with_document",
                                 !.pc = IF chatbot.exists THEN "return" ELSE "create",
                                 !.user_text = question,
                                 !.extracted_text = document_text]]
    /\ UNCHANGED <<call, files, now, uuids, chatbot, summarizer, issued, cleaner>>

\* _document_chatbot = DocumentChatbot(): a thread that holds the instance
\* the global referred to so far keeps that instance
GetChatbotCreate(t) ==
    /\ thr[t].pc = "create"
    /\ \E loaded \in BOOLEAN :
         chatbot' = [NewChatbot(loaded) EXCEPT !.id = t]
    /\ thr' = [u \in Threads |->
                  IF u = t THEN [thr[u] EXCEPT !.pc = "return"]
                  ELSE IF thr[u].bot.exists /\ chatbot.exists /\ thr[u].bot.id = chatbot.id
                  THEN [thr[u] EXCEPT !.bot = chatbot]
                  ELSE thr[u]]
    /\ UNCHANGED <<call, files, now, uuids, summarizer, issued, cleaner>>

\* return _document_chatbot
GetChatbotReturn(t) ==
    /\ thr[t].pc = "return"
    /\ thr' = [thr EXCEPT ![t] = [@ EXCEPT !.pc = "store", !.bot = chatbot]]
    /\ UNCHANGED <<call, files, now, uuids, chatbot, summarizer, issued, cleaner>>

\* "if document_text: chatbot.set_source_document(document_text)" and
\* "return chatbot.answer_question(question)", on the instance of the thread
ChatWithDocumentAnswer(t) ==
    /\ thr[t].pc = "store"
    /\ \E reply \in QaReplies :
         LET th == thr[t]
             isGlobal == th.bot.id = chatbot.id
             mine == IF isGlobal THEN chatbot ELSE th.bot
             bot == IF th.extracted_text # <<>>
                    THEN set_source_document(mine, th.extracted_text)
                    ELSE mine
         IN  /\ chatbot' = IF isGlobal THEN bot ELSE chatbot
             /\ thr' = [thr EXCEPT ![t] =
                    Done([th EXCEPT !.bot = bot],
                         [kind |-> "text", status |-> 200,
                          body |-> [response |->
                                       answer_question(bot.source_document, bot.qa_pipeline,
                                                       th.user_text, reply)]])]
    /\ UNCHANGED <<call, files, now, uuids, summarizer, issued, cleaner>>

ChatWithDocument(t) ==
    \/ GetChatbotTest(t)
    \/ GetChatbotCreate(t)
    \/ GetChatbotReturn(t)
    \/ ChatWithDocumentAnswer(t)

\* both threads call chat_with_document
NextSingleton == \E t \in Threads : ChatWithDocument(t)

SpecSingleton == Init /\ [][NextSingleton]_vars

\* thread t has its instance from get_chatbot
HasInstance(t) == thr[t].route = "chat_with_document" /\ thr[t].pc \in {"store", "done"}

\* C20: under any interleaving of first calls of get_chatbot one instance
\* is created and every caller receives it: the instance a caller holds is
\* the global one, and once a document is stored through a caller's handle
\* the global instance holds a document for every later caller.
C20_OneInstance ==
    /\ [](\A t \in Threads : HasInstance(t) => thr[t].bot.id = chatbot.id)
    /\ [][chatbot.source_document # <<>> => chatbot'.source_document # <<>>]_vars

(***************************************************************************)
(* DocumentChatbot.answer_question called on an instance that holds a      *)
(* document: the initial state draws the instance, the question and what   *)
(* the question-answering pipeline would reply.                            *)
(***************************************************************************)
QuestionAlphabet == {"TABLE", "Summary", "checklist", "What", "count", "W21"}

AskedQuestions ==
    Strings(QuestionAlphabet, 2)
    \cup {<<"Main", " ", "points">>, <<"bullet", " ", "points">>, <<"how", " ", "many">>,
          <<"What", " ", "W21">>, <<"TABLE", " ", "Main", " ", "points">>,
          <<"how", " ", "many", " ", "What">>}

AnswerCalls ==
    {Pending("answer_question", [question |-> q, reply |-> r]) :
        q \in AskedQuestions, r \in QaReplies}

Instances ==
    {set_source_document(NewChatbot(l), d) : l \in BOOLEAN, d \in Docs}

InitAnswer ==
    /\ call \in AnswerCalls
    /\ files = <<>>
    /\ now = 0
    /\ thr = [t \in Threads |-> Idle]
    /\ uuids = 0
    /\ chatbot \in Instances
    /\ summarizer \in {LoadSummarizer(TRUE, TRUE)}
    /\ issued = {}
    /\ cleaner = Asleep(0, "", {})

\* chatbot.answer_question(question)
AnswerQuestionCall ==
    /\ call.op = "answer_question"
    /\ Return(answer_question(chatbot.source_document, chatbot.qa_pipeline,
                              call.args.question, call.args.reply))

SpecAnswer == InitAnswer /\ [][AnswerQuestionCall]_vars

\* the class of a question: the first, in the order table, summary, list, of
\* the classes one of whose keywords the lowered question contains
KeywordClass(q) ==
    IF \E kw \in table_keywords : HasAnyWord(q, {kw}) THEN "table"
    ELSE IF (\E kw \in summary_keywords : HasAnyWord(q, {kw}))
            \/ HasPhrase(q, <<"main", " ", "points">>) THEN "summary"
    ELSE IF (\E kw \in list_keywords : HasAnyWord(q, {kw}))
            \/ HasPhrase(q, <<"bullet", " ", "points">>) THEN "list"
    ELSE "general"

\* what the handler of a class returns
HandledAs(class, bot, q, reply) ==
    CASE class = "table" -> _create_table_from_text(bot.source_document)
      [] class = "summary" -> _create_custom_summary(bot.source_document)
      [] class = "list" -> _create_list_from_text(bot.source_document)
      [] class = "general" ->
             _answer_direct_question(bot.source_document, bot.qa_pipeline, q, reply)

\* C21: with a non-empty current document, answer_question handles every
\* question by exactly one of the classes table, summary, list and general,
\* chosen by case-insensitive keyword containment with the precedence table
\* over summary over list over general; a question without keyword is
\* handled as a general question.
C21_ClassPrecedence ==
    (Finished("answer_question") /\ chatbot.source_document # <<>>) =>
        call.ret = HandledAs(KeywordClass(call.args.question), chatbot,
                             call.args.question, call.args.reply)

\* a question with a summary keyword and an upper-case table keyword got the
\* table made from the document
C21_Witness ==
    /\ Finished("answer_question")
    /\ call.args.question = <<"Summary", "TABLE">>
    /\ chatbot.source_document = <<"W21", " ", "is", " ", "W5", ".", "W5">>
    /\ call.ret = _create_table_from_text(chatbot.source_document)
    /\ call.ret # _create_custom_summary(chatbot.source_document)
    /\ call.ret # NoTableMsg


\* the question-answering backend gave no usable answer: it is not loaded,
\* the call raises, the result is no {score, answer} dictionary, or the
\* confidence is not above the threshold
QaUnusable(bot, reply) ==
    \/ ~bot.qa_pipeline
    \/ reply.kind = "raise"
    \/ reply.kind # "dict"
    \/ reply.score <= ConfidencePct

\* the sentences of the document that hold a word of the question longer
\* than three characters
Relevant(doc, q) ==
    SelectSeq(DotSplit(doc), LAMBDA x : \E w \in SearchWords(q) : HasWord(x, w))

\* C22: a general question whose backend is unavailable, raises, returns a
\* malformed result or a confidence not above the threshold is answered from
\* the stored document: by the keyword search if it contains "what",
\* "explain" or "describe", otherwise by the statistics if it contains
\* "how many" or "count", otherwise by the help message; answering leaves
\* the stored document as it is.
C22_GeneralFallback ==
    /\ [](LET q == call.args.question
              doc == chatbot.source_document
          IN  (/\ Finished("answer_question")
               /\ doc # <<>>
               /\ KeywordClass(q) = "general"
               /\ QaUnusable(chatbot, call.args.reply)) =>
                  IF HasAnyWord(q, {"what", "explain", "describe"})
                  THEN IF Relevant(doc, q) = <<>> THEN call.ret = NotFoundMsg
                       ELSE /\ call.ret[1] = "**Based on the document:** "
                            /\ SubSeq(call.ret, 2, Len(call.ret) - 1)
                                   = Prefix(Strip(Relevant(doc, q)[1]), 200)
                  ELSE IF HasPhrase(q, <<"how", " ", "many">>) \/ HasAnyWord(q, {"count"})
                  THEN /\ call.ret[1] = "**Document Statistics:**"
                       /\ call.ret[4] = ToString(Len(DotSplit(doc)))
                       /\ call.ret[7] = ToString(Len(Words(doc)))
                       /\ call.ret[10] = ToString(StrLen(doc))
                  ELSE call.ret = HelpMsg)
    /\ [][chatbot'.source_document = chatbot.source_document]_vars

\* a loaded backend answered "how many" with a confidence of exactly 30 %,
\* and the reply is the statistics of the document
C22_Witness ==
    /\ Finished("answer_question")
    /\ call.args.question = <<"how", " ", "many">>
    /\ chatbot.qa_pipeline
    /\ call.args.reply = QaReply("dict", 30, <<"W5">>)
    /\ chatbot.source_document = <<"W21", " ", "is", " ", "W5", ".", "W5">>
    /\ call.ret[1] = "**Document Statistics:**"
    /\ call.ret[4] = "2"


(***************************************************************************)
(* utils/ai_summarizer.py                                                  *)
(***************************************************************************)
\* s[-n:]; a run of letters cut in two is left as the token "~"
RECURSIVE Suffix(_, _)
Suffix(s, n) ==
    IF s = <<>> \/ n <= 0 THEN <<>>
    ELSE LET last == s[Len(s)]
         IN  IF TokLen(last) <= n
             THEN Suffix(SubSeq(s, 1, Len(s) - 1), n - TokLen(last)) \o <<last>>
             ELSE <<"~">>

\* s.split('. '): a full stop followed by a space is a separator
RECURSIVE SplitDotSpaceFrom(_, _, _, _)
SplitDotSpaceFrom(s, i, cur, acc) ==
    IF i > Len(s) THEN Append(acc, cur)
    ELSE IF s[i] = "." /\ i < Len(s) /\ s[i + 1] = " "
         THEN SplitDotSpaceFrom(s, i + 2, <<>>, Append(acc, cur))
    ELSE SplitDotSpaceFrom(s, i + 1, Append(cur, s[i]), acc)

SplitDotSpace(s) == SplitDotSpaceFrom(s, 1, <<>>, <<>>)

\* sentence[:-1] if sentence.endswith('.')
DropFinalDot(s) ==
    IF s # <<>> /\ s[Len(s)] = "." THEN SubSeq(s, 1, Len(s) - 1) ELSE s

\* s[:n] + "..." if len(s) > n else s
Shorten(s, n) == IF StrLen(s) > n THEN Prefix(s, n) \o <<"...">> ELSE s

\* seq[:n]
Take(seq, n) == SubSeq(seq, 1, Min({n, Len(seq)}))

ShortTextLen == 100

SplitSize == 1024

\* OfflineAISummarizer._format_short_content
_format_short_content(text, note_style) ==
    LET cleaned_text == Strip(text)
    IN  IF note_style = "bullet" THEN <<"* ">> \o cleaned_text
        ELSE IF note_style = "structured"
        THEN <<"## **Quick Note**", "\n", "\n">> \o cleaned_text
             \o <<"\n", "\n", "---", "\n", "*Short content summary*">>
        ELSE cleaned_text

\* the loop of _split_text over the sentences
RECURSIVE SplitLoop(_, _, _, _)
SplitLoop(sentences, max_chunk_size, current_chunk, chunks) ==
    IF sentences = <<>>
    THEN (IF current_chunk # <<>> THEN Append(chunks, Strip(current_chunk)) ELSE chunks)
    ELSE LET sentence == Head(sentences)
         IN  IF StrLen(current_chunk \o sentence) < max_chunk_size
             THEN SplitLoop(Tail(sentences), max_chunk_size,
                            current_chunk \o sentence \o <<".", " ">>, chunks)
             ELSE SplitLoop(Tail(sentences), max_chunk_size, sentence \o <<".", " ">>,
                            IF current_chunk # <<>>
                            THEN Append(chunks, Strip(current_chunk)) ELSE chunks)

\* OfflineAISummarizer._split_text
_split_text(text, max_chunk_size) ==
    LET chunks == SplitLoop(SplitDotSpace(text), max_chunk_size, <<>>, <<>>)
    IN  IF chunks # <<>> THEN chunks ELSE <<text>>

important_words == Keywords \cup {"major"}

\* OfflineAISummarizer._extract_key_points
_extract_key_points(text) ==
    LET sentences == DotSplit(text)
        points == SelectSeq(MapStrip(sentences),
                      LAMBDA x : /\ StrLen(x) > 20
                                 /\ \/ HasAnyWord(x, important_words)
                                    \/ (StrLen(x) > 50 /\ StrLen(x) < 200))
        first == SelectSeq(MapStrip(Take(sentences, 3)), LAMBDA x : StrLen(x) > 20)
    IN  Take(IF points = <<>> THEN first ELSE points, 8)

\* OfflineAISummarizer._identify_main_topics
_identify_main_topics(text) ==
    LET sentences == DotSplit(text)
        marked == SelectSeq(MapStrip(sentences),
                      LAMBDA x : \/ HasAnyWord(x, {"about"})
                                 \/ HasPhrase(x, <<"this", " ", "chapter">>)
                                 \/ HasPhrase(x, <<"this", " ", "section">>)
                                 \/ HasPhrase(x, <<"we", " ", "discuss">>)
                                 \/ HasPhrase(x, <<"focuses", " ", "on">>))
        topics == [i \in 1..Len(marked) |-> Shorten(marked[i], 100)]
    IN  Take(IF topics = <<>> THEN <<Shorten(sentences[1], 80)>> ELSE topics, 5)

\* OfflineAISummarizer._create_overview
_create_overview(text) ==
    LET sentences == DotSplit(text)
        n == Len(sentences)
        parts == SelectSeq(MapStrip(<<sentences[1], sentences[(n \div 2) + 1],
                                      sentences[n - 1]>>),
                           LAMBDA x : x # <<>>)
    IN  IF n >= 3 THEN Join(<<".", " ">>, parts) \o <<".">>
        ELSE Shorten(text, 300)

\* OfflineAISummarizer._create_executive_summary; the slices are exact up to
\* the runs of letters they cut
_create_executive_summary(text) ==
    LET n == StrLen(text)
        first_part == Prefix(text, n \div 3)
        last_part == Suffix(text, (n + 2) \div 3)
    IN  IF n < 200 THEN text
        ELSE Prefix(first_part, 150) \o <<"...", " ">> \o Suffix(last_part, 150)

\* OfflineAISummarizer._extract_insights
_extract_insights(text) ==
    LET sentences == MapStrip(DotSplit(text))
        insight_words == {"shows", "demonstrates", "reveals", "indicates", "suggests",
                          "implies", "proves"}
        insights == SelectSeq(sentences,
                        LAMBDA x : HasAnyWord(x, insight_words) /\ StrLen(x) > 30)
        meaningful == SelectSeq(sentences, LAMBDA x : 40 <= StrLen(x) /\ StrLen(x) <= 150)
    IN  Take(IF insights = <<>> THEN Take(meaningful, 3) ELSE insights, 5)

NoConclusion == <<"The content provides valuable information for further study and analysis.">>

\* OfflineAISummarizer._create_conclusion
_create_conclusion(text) ==
    LET sentences == DotSplit(text)
        conclusion_words == {"conclusion", "summary", "finally", "therefore", "thus"}
        concluding == SelectSeq(sentences, LAMBDA x : HasAnyWord(x, conclusion_words))
        meaningful == SelectSeq(MapStrip(sentences), LAMBDA x : StrLen(x) > 30)
    IN  IF concluding # <<>> THEN Strip(concluding[1])
        ELSE IF meaningful # <<>> THEN meaningful[Len(meaningful)]
        ELSE NoConclusion

\* OfflineAISummarizer._extract_key_sentences
_extract_key_sentences(text) ==
    LET key_sentences == SelectSeq(MapStrip(DotSplit(text)),
                             LAMBDA x : 30 <= StrLen(x) /\ StrLen(x) <= 150)
    IN  Join(<<".", " ">>,
             Take(IF key_sentences = <<>> THEN <<Prefix(text, 200)>> ELSE key_sentences, 3))

\* "\n".join(lines)
JoinLines(lines) == Join(<<"\n">>, lines)

\* OfflineAISummarizer._create_bullet_notes
_create_bullet_notes(text) ==
    LET kept == SelectSeq(MapStrip(SplitDotSpace(text)), LAMBDA x : StrLen(x) > 15)
        bullet_points == [i \in 1..Len(kept) |-> <<"* ">> \o DropFinalDot(kept[i])]
    IN  IF bullet_points # <<>> THEN JoinLines(bullet_points) ELSE <<"* ">> \o text

\* OfflineAISummarizer._create_detailed_analysis; "=x60" is "=" * 60
_create_detailed_analysis(text) ==
    LET key_points == _extract_key_points(text)
        main_topics == _identify_main_topics(text)
        paragraphs == Take(SplitOn(text, "\n"), 5)
        insights == _extract_insights(text)
    IN  JoinLines(
            <<<<"# **DETAILED ANALYSIS**">>, <<"=x60">>, <<>>,
              <<"## **EXECUTIVE SUMMARY**">>, _create_executive_summary(text), <<>>,
              <<"## **CONTENT ANALYSIS**">>>>
            \o [i \in 1..Len(key_points) |-> <<"**", ToString(i), ".** ">> \o key_points[i]]
            \o <<<<>>>>
            \o (IF main_topics # <<>>
                THEN <<<<"## **MAIN THEMES**">>>>
                     \o [i \in 1..Len(main_topics) |-> <<"-> ">> \o main_topics[i]]
                     \o <<<<>>>>
                ELSE <<>>)
            \o <<<<"## **DETAILED BREAKDOWN**">>>>
            \o Concat([i \in 1..Len(paragraphs) |->
                          IF Strip(paragraphs[i]) # <<>>
                          THEN <<<<"**Section ", ToString(i), ":**">>, Strip(paragraphs[i]), <<>>>>
                          ELSE <<>>])
            \o <<<<"## **KEY INSIGHTS**">>>>
            \o [i \in 1..Len(insights) |-> <<"v ">> \o insights[i]]
            \o <<<<>>, <<"## **CONCLUSION**">>, _create_conclusion(text), <<>>,
                 <<"---">>, <<"*Detailed analysis generated by AutoNote AI*">>>>)

\* OfflineAISummarizer._create_standard_structured_notes; "=x50" is "=" * 50
_create_standard_structured_notes(text, use_ai) ==
    LET key_points == _extract_key_points(text)
        main_topics == _identify_main_topics(text)
    IN  JoinLines(
            <<<<"# **STUDY NOTES**">>, <<"=x50">>, <<>>>>
            \o (IF StrLen(text) > 200
                THEN <<<<"## **OVERVIEW**">>, _create_overview(text), <<>>>>
                ELSE <<>>)
            \o (IF main_topics # <<>>
                THEN <<<<"## **KEY TOPICS**">>>>
                     \o [i \in 1..Len(main_topics) |->
                            <<"**", ToString(i), ".** ">> \o main_topics[i]]
                     \o <<<<>>>>
                ELSE <<>>)
            \o <<<<"## **IMPORTANT POINTS**">>>>
            \o [i \in 1..Len(key_points) |-> <<"* ">> \o key_points[i]]
            \o <<<<>>, <<"## **SUMMARY**">>, _create_executive_summary(text), <<>>,
                 <<"## **STUDY RECOMMENDATIONS**">>,
                 <<"* ", "Review the key topics regularly">>,
                 <<"* ", "Focus on understanding the main concepts">>,
                 <<"* ", "Create your own examples for better retention">>, <<>>,
                 <<"---">>, <<"*Generated by AutoNote AI*">>>>)

NoContentAvailable ==
    <<"**No Content Available**", "\n", "\n", "---", "\n", "\n",
      "*No text content was found in the document.*">>

\* OfflineAISummarizer._create_structured_notes
_create_structured_notes(text, use_ai, note_style) ==
    IF text = <<>> \/ Strip(text) = <<>> THEN NoContentAvailable
    ELSE IF note_style = "bullet" THEN _create_bullet_notes(text)
    ELSE IF note_style = "detailed" THEN _create_detailed_analysis(text)
    ELSE _create_standard_structured_notes(text, use_ai)

\* the loop of summarize_text over the chunks: k calls of the model were
\* made before; a call that raises is replaced by the key sentences of its chunk
RECURSIVE SummarizeChunks(_, _, _)
SummarizeChunks(chunks, be, k) ==
    IF chunks = <<>> THEN <<>>
    ELSE LET r == PipelineCall(be, k + 1)
         IN  <<IF r.raises THEN _extract_key_sentences(Head(chunks)) ELSE r.text>>
             \o SummarizeChunks(Tail(chunks), be, k + 1)

\* OfflineAISummarizer.summarize_text: the notes, the chunks made and the
\* number of calls of the model
summarize_text(loaded, text, note_style, be) ==
    IF ~loaded
    THEN [value |-> _create_structured_notes(text, FALSE, note_style),
          chunks |-> <<>>, calls |-> 0, short |-> FALSE]
    ELSE IF StrLen(Strip(text)) < ShortTextLen
    THEN [value |-> _format_short_content(Strip(text), note_style),
          chunks |-> <<>>, calls |-> 0, short |-> TRUE]
    ELSE LET chunks == _split_text(Strip(text), SplitSize)
             summaries == SummarizeChunks(chunks, be, 0)
         IN  [value |-> _create_structured_notes(Join(<<" ">>, summaries), TRUE, note_style),
              chunks |-> chunks, calls |-> Len(chunks), short |-> FALSE]

(***************************************************************************)
(* The two note generators called directly: summarize_text of an           *)
(* OfflineAISummarizer whose model is loaded or not, and generate_notes on *)
(* texts long enough to be chunked.                                        *)
(***************************************************************************)
\* 99 and 100 characters
Text99 == <<"W21", " ", "W21", " ", "W21", " ", "W21", " ", "W5", " ", "W5">>

Text100 == Text99 \o <<".">>

SummarizeTexts ==
    {<<>>, <<" ">>, <<"W5">>, <<" ", "W5", ".">>, <<"W21", ".", " ", "key", " ", "W21", ".">>,
     Text99, Text100,
     <<"W900">>,
     <<"W900", ".", " ", "W900", ".">>,
     <<"W900", " ", "W900", ".">>,
     <<"W900", ".", " ", "W21", ".", " ", "W21">>,
     <<"W900", ".", " ", "W21", " ", "W21", " ", "W21", " ", "W21", " ", "W21", " ", "W5", " ",
       "W5", ".", " ", "W5">>}

SummarizeCalls ==
    {Pending("summarize_text", [loaded |-> l, text |-> x, note_style |-> s, be |-> b]) :
        l \in BOOLEAN, x \in SummarizeTexts, s \in NoteStyles, b \in Backends}

LongNotesCalls ==
    {c \in NotesCalls : StrLen(c.args.text) > LongTextLen}

\* get_ai_summarizer().summarize_text(text, note_style=note_style)
SummarizeTextCall ==
    /\ call.op = "summarize_text"
    /\ Return(summarize_text(call.args.loaded, call.args.text, call.args.note_style,
                             call.args.be))

InitSummarize == call \in (SummarizeCalls \cup LongNotesCalls) /\ Library

NextSummarize == SummarizeTextCall \/ GenerateNotesCall

SpecSummarize == InitSummarize /\ [][NextSummarize]_vars

\* C23: for every note style and in every backend state, note generation on
\* a text shorter than the minimum length returns that text wrapped in the
\* minimal template of the style, without calling the backend and without
\* making chunks.
C23_ShortVerbatim ==
    (Finished("summarize_text") /\ StrLen(call.args.text) < ShortTextLen) =>
        /\ call.ret.value = _format_short_content(call.args.text, call.args.note_style)
        /\ call.ret.calls = 0
        /\ call.ret.chunks = <<>>


\* the chunks generate_notes makes of a text it does not summarize in one call
NotesChunks(text) == chunk_text(text, ChunkSize)

\* C24: for a text at or above the minimum length every chunk made by the
\* splitter (_split_text, chunk_text) is at most as long as the requested
\* maximum chunk size, and the backend is called exactly once for each chunk.
C24_ChunksBounded ==
    /\ (/\ Finished("summarize_text")
        /\ call.args.loaded
        /\ StrLen(Strip(call.args.text)) >= ShortTextLen) =>
           /\ \A i \in 1..Len(call.ret.chunks) : StrLen(call.ret.chunks[i]) <= SplitSize
           /\ call.ret.calls = Len(call.ret.chunks)
    /\ (/\ Finished("generate_notes")
        /\ ~UseFallback(summarizer)
        /\ StrLen(call.args.text) > LongTextLen) =>
           /\ \A i \in 1..Len(NotesChunks(call.args.text)) :
                  StrLen(NotesChunks(call.args.text)[i]) <= ChunkSize
           /\ ~call.ret.ret.fellBack =>
                  call.ret.ret.calls = Len(NotesChunks(call.args.text))


(***************************************************************************)
(* Suggestions: GET /api/chat/suggestions, which asks the DocumentChatbot, *)
(* and OnlineAI.get_suggestions, which asks the Gemini model.              *)
(***************************************************************************)
\* OnlineAI._default_suggestions
_default_suggestions ==
    << <<"What are the main topics covered?">>,
       <<"Can you create a summary?">>,
       <<"List the key points">>,
       <<"What should I remember from this?">> >>

\* [line.strip() for line in text.strip().split('\n') if line.strip()]
StrippedLines(text) ==
    SelectSeq(MapStrip(SplitOn(Strip(text), "\n")), LAMBDA x : x # <<>>)

\* OnlineAI.get_suggestions(document_text)
online_get_suggestions(is_initialized, api, document_text) ==
    IF ~is_initialized THEN _default_suggestions
    ELSE IF api.kind = "raise" THEN _default_suggestions
    ELSE IF api.text # <<>> THEN Take(StrippedLines(api.text), 4)
    ELSE _default_suggestions

\* what the model may reply when asked for questions
ProposalTexts ==
    Strings({"W5", "\n", " "}, 3)
    \cup {<<"W5", "\n", "W5", "\n", "W5", "\n", "W5", "\n", "W5">>}

SuggestReplies ==
    {ApiReply("raise", "DeadlineExceeded", <<>>)}
    \cup {ApiReply("text", "", x) : x \in ProposalTexts}

SuggestCalls ==
    {Pending("chat_suggestions", [api |-> a]) : a \in SuggestReplies}
    \cup {Pending("get_suggestions", [is_initialized |-> i, api |-> a, document_text |-> d]) :
              i \in BOOLEAN, a \in SuggestReplies, d \in Docs}

InitSuggest ==
    /\ call \in SuggestCalls
    /\ files = <<>>
    /\ now = 0
    /\ thr = [t \in Threads |-> Idle]
    /\ uuids = 0
    /\ chatbot \in IF call.op = "chat_suggestions" THEN Instances \cup {NoChatbot}
                   ELSE {NoChatbot}
    /\ summarizer \in {LoadSummarizer(TRUE, TRUE)}
    /\ issued = {}
    /\ cleaner = Asleep(0, "", {})

\* chat_suggestions(), which creates the chatbot on first use
ChatSuggestionsCall ==
    /\ call.op = "chat_suggestions"
    /\ ~call.done
    /\ \E loaded \in BOOLEAN :
         LET bot == get_chatbot(chatbot, loaded)
         IN  /\ chatbot' = bot
             /\ call' = [call EXCEPT !.done = TRUE,
                             !.ret = Json(200, [suggestions |-> get_suggestions(bot.source_document),
                                                success |-> <<"true">>])]
    /\ UNCHANGED <<files, now, thr, uuids, summarizer, issued, cleaner>>

\* get_online_ai().get_suggestions(document_text)
OnlineSuggestionsCall ==
    /\ call.op = "get_suggestions"
    /\ Return(online_get_suggestions(call.args.is_initialized, call.args.api,
                                     call.args.document_text))

NextSuggest == ChatSuggestionsCall \/ OnlineSuggestionsCall

SpecSuggest == InitSuggest /\ [][NextSuggest]_vars

\* the questions the backend proposes: the non-blank lines of its reply
Proposed(api) == StrippedLines(api.text)

\* the backend call succeeds: the backend is there and replies with a text
Succeeds(available, api) == available /\ api.kind = "text" /\ api.text # <<>>

\* what the suggestions are to be, given the document, the backend and its reply
Suggested(list, doc, available, api) ==
    /\ list # <<>>
    /\ IF doc = <<>> THEN list = UploadFirst
       ELSE IF Succeeds(available, api)
       THEN \A i \in 1..Len(list) : \E j \in 1..Len(Proposed(api)) : list[i] = Proposed(api)[j]
       ELSE list \in {DefaultSuggestions, _default_suggestions}

\* C25: suggestions() never raises and always returns a non-empty list of
\* questions: those the backend proposes when the backend call succeeds, the
\* static default list when the backend is unavailable or fails, and the
\* single "upload a document first" entry when no document has been set.
C25_SuggestionsNonEmpty ==
    /\ Finished("chat_suggestions") =>
           /\ call.ret.status = 200
           /\ Suggested(call.ret.body.suggestions, chatbot.source_document,
                        chatbot.qa_pipeline, call.args.api)
    /\ Finished("get_suggestions") =>
           Suggested(call.ret, call.args.document_text, call.args.is_initialized,
                     call.args.api)


\* the upload of the request has a name whose extension is not accepted
DisallowedUpload(th) ==
    /\ th.filename # <<>>
    /\ ~(/\ HasDot(th.filename)
         /\ <<".">> \o LowerSeq(AfterLastDot(th.filename)) \in UPLOAD_EXTENSIONS)

\* the request was turned away for unsupported or missing input
Aborted(th) ==
    /\ th.route = "process"
    /\ th.pc = "done"
    /\ \E i \in 1..Len(th.flashes) : th.flashes[i] \in {UnsupportedMsg, EmptyInputMsg}

\* the paths of the directory that are no temporary uploads
ExportPaths(dir) == {p \in DOMAIN dir : p[1] # "temp_"}

ExportsKept ==
    /\ ExportPaths(files') = ExportPaths(files)
    /\ \A p \in ExportPaths(files) : files'[p] = files[p]

\* C26: a POST /process with an upload of a disallowed extension, pasted text
\* or not, or with no text gathered at all, flashes a message and redirects
\* to the index page; no step of such a request writes an export file,
\* generates an identifier or changes the chatbot's document and history,
\* and a request with a disallowed upload touches neither the directory nor
\* the uuid source.
C26_AbortChangesNothing ==
    /\ [](\A t \in Threads :
            (thr[t].route = "process" /\ thr[t].pc = "done") =>
                /\ DisallowedUpload(thr[t]) =>
                       /\ thr[t].flashes = <<UnsupportedMsg>>
                       /\ thr[t].temp_path = <<>>
                /\ (~IsNonBlank(thr[t].extracted_text) /\ ~thr[t].generated) =>
                       thr[t].flashes # <<>>
                /\ Aborted(thr[t]) =>
                       /\ thr[t].resp = RedirectIndex
                       /\ ~thr[t].generated)
    /\ [][\A t \in Threads :
            (thr'[t] # thr[t] /\ thr'[t].route = "process" /\ ~thr'[t].generated) =>
                /\ chatbot' = chatbot
                /\ issued' = issued
                /\ ExportsKept
                /\ DisallowedUpload(thr'[t]) => (files' = files /\ uuids' = uuids)]_vars

\* an image was uploaded together with pasted text while another client had
\* the chatbot created: the request ended in the unsupported-type redirect
C26_Witness ==
    /\ Answered(1, "process")
    /\ thr[1].filename = <<"a", ".", "png">>
    /\ thr[1].user_text # <<>>
    /\ Flashed(1, UnsupportedMsg)
    /\ thr[1].resp = RedirectIndex
    /\ chatbot.exists
    /\ uuids = 0


\* a client asks for downloads while the sweeper runs
NextServe ==
    \/ Download(2)
    \/ Cleanup
    \/ Tick

SpecServe == Init /\ [][NextServe]_vars

\* the file a download request names
Requested(th) == ExportPath(th.file_id, th.format_type)

\* A download goes by the directory alone: the request goes on to send the
\* file exactly when <id>.<format> exists when it is tested, and is
\* otherwise sent to the index page with "File not found"; a file is
\* streamed only while it exists, with its content; the issued identifiers
\* play no part.
DownloadFollowsDirectory ==
    [][\A t \in Threads :
         (thr'[t] # thr[t] /\ thr'[t].route = "download") =>
             /\ thr[t].pc # "send" =>
                    IF Requested(thr'[t]) \in DOMAIN files
                    THEN thr'[t].pc = "send"
                    ELSE /\ thr'[t].pc = "done"
                         /\ thr'[t].resp = RedirectIndex
                         /\ thr'[t].flashes = <<FileNotFoundMsg>>
             /\ thr'[t].resp.kind = "file" =>
                    /\ Requested(thr[t]) \in DOMAIN files
                    /\ thr'[t].resp.body.content = files[Requested(thr[t])].content.text]_vars

\* C27: GET /download/<id>?format=f streams a file exactly when <id>.<f>
\* exists in the output directory at the time of the request, without
\* consulting a record of issued identifiers; after a successful /process
\* the returned identifier has its txt, md, pdf and docx files in the
\* directory for as long as no cleanup pass deletes them.
C27_DownloadableWhileOnDisk ==
    /\ DownloadFollowsDirectory
    /\ [](\A t \in Threads :
            (Answered(t, "process") /\ thr[t].generated /\ ~thr[t].exportFailed) =>
                /\ thr[t].resp.kind = "render"
                /\ \A i \in 1..Len(ExportFormats) :
                       ExportPath(thr[t].resp.body.file_id, ExportFormats[i]) \in DOMAIN files)


\* C28: generate_notes returns a non-empty string, without raising, for
\* every input that holds a non-whitespace character, on the model path and
\* on the fallback path; skipping the chunks shorter than 50 characters
\* never leaves it without a chunk summary.
C28_NotesNonEmpty ==
    (Finished("generate_notes") /\ IsNonBlank(call.args.text)) =>
        /\ call.ret.raised = ""
        /\ call.ret.ret.value # <<>>


(***************************************************************************)
(* simple_text_summarizer and chunk_text called directly.                  *)
(***************************************************************************)
MaxSentenceTokens == 6

SentenceAlphabet == {"W21", "key", ".", " "}

SentenceTexts == Strings(SentenceAlphabet, MaxSentenceTokens)

ChunkSizes == {1, 4, 25, 900}

TextCalls ==
    {Pending("simple_text_summarizer", [text |-> x]) : x \in SentenceTexts}
    \cup {Pending("chunk_text", [text |-> x, max_chunk_size |-> n]) :
              x \in NoteTexts, n \in ChunkSizes}

\* simple_text_summarizer(text)
SimpleSummarizerCall ==
    /\ call.op = "simple_text_summarizer"
    /\ Return(simple_text_summarizer(call.args.text))

\* chunk_text(text, max_chunk_size)
ChunkTextCall ==
    /\ call.op = "chunk_text"
    /\ Return(chunk_text(call.args.text, call.args.max_chunk_size))

InitText == call \in TextCalls /\ Library

NextText == SimpleSummarizerCall \/ ChunkTextCall

SpecText == InitText /\ [][NextText]_vars

\* the sentences of a text that are longer than 20 characters, in order
Meaningful(text) == SelectSeq(MapStrip(ReSplit(text)), IsMeaningful)

\* the bullets of a summary, one per line
Bullets(summary) == IF summary = <<>> THEN <<>> ELSE SplitOn(summary, "\n")

\* the bullets are sentences of the text, no occurrence of a sentence taken twice
PicksOnce(bullets, sentences) ==
    \E f \in [1..Len(bullets) -> 1..Len(sentences)] :
        /\ \A i, j \in 1..Len(bullets) : i # j => f[i] # f[j]
        /\ \A i \in 1..Len(bullets) : bullets[i] = BulletLine(sentences[f[i]])

\* C29: simple_text_summarizer outputs a selection of at most 5 sentences of
\* the input, the first sentence longer than 20 characters first, and no
\* occurrence of a sentence in more than one bullet, the sentences added by
\* the top-up step included.
C29_NoDuplicateBullets ==
    Finished("simple_text_summarizer") =>
        LET bullets == Bullets(call.ret)
            sentences == Meaningful(call.args.text)
        IN  /\ Len(bullets) <= MaxSummary
            /\ sentences # <<>> => (bullets # <<>> /\ bullets[1] = BulletLine(sentences[1]))
            /\ Len(bullets) <= Len(sentences)
            /\ PicksOnce(bullets, sentences)

\* C30: chunk_text loses and reorders nothing: for every text and every
\* positive maximum chunk size no chunk is empty, and the chunks joined with
\* single spaces are the whitespace-separated words of the text joined with
\* single spaces, so that every word is in one chunk and in its place.
C30_ChunksKeepWords ==
    Finished("chunk_text") =>
        /\ \A i \in 1..Len(call.ret) : call.ret[i] # <<>>
        /\ Join(<<" ">>, call.ret) = Join(<<" ">>, Words(call.args.text))
        /\ Concat([i \in 1..Len(call.ret) |-> Words(call.ret[i])]) = Words(call.args.text)

\* two words with two blanks between them, cut into a chunk each
C30_Witness ==
    /\ Finished("chunk_text")
    /\ call.args.text = <<"key", " ", " ", "key">>
    /\ call.args.max_chunk_size = 4
    /\ call.ret = <<<<"key">>, <<"key">>>>

=============================================================================
